---------------------------- MODULE Spec2Model ----------------------------
(***************************************************************************)
(* A model of the Kinesis producer pipeline of lib/kinesis: the submit     *)
(* front-end (producer.rs), the pipeline built by PipelineBuilder::build   *)
(* (lib.rs), the sink, its response handling and the retry worker          *)
(* (sink.rs), the aggregator (aggregator.rs) and the shutdown latch        *)
(* (shutdown.rs).  Every await of the code is a step boundary: what runs   *)
(* between two awaits is one action.                                       *)
(***************************************************************************)
EXTENDS Integers, Sequences, FiniteSets, TLC

(***************************************************************************)
(* Bounds of the model.                                                    *)
(***************************************************************************)
\* number of raw records ever submitted
NRec == 2
\* raw records of one submit call
CallSize == 2
\* capacity of the submit channel (mpsc::channel(1000) in the code)
SubmitCap == 1
\* capacity of the retry worker's channel (mpsc::channel(10) in the code)
RetryCap == 1
\* ticks of the configured retry_backoff
RetryBackoff == 1
\* aggregator budget (PipelineBuilder::aggregate)
AggMaxBytes == 3
AggMaxRecords == 2
\* batch budget (PipelineBuilder::batch)
BatchMaxBytes == 45
\* the max_records given to PipelineBuilder::batch
BatchMaxRecords == 1

\* the number of PutRecords requests the sink is to have in flight at most
MaxInFlight == 1

\* number of times the stream service reshards
MaxReshard == 1
\* the largest record the stream service accepts
ServiceMaxBytes == 22
\* the passes through the delay queue that are told apart
MaxTries == 1

\* magic (4 bytes) and MD5 trailer (16 bytes) around an aggregated payload
FrameBytes == 20

Recs == 1..NRec
NCalls == (NRec + CallSize - 1) \div CallSize
Calls == 1..NCalls
Keys == {"k1", "k2"}
Lens == {1, 2}
Shards == {1, 2}
SeqNos == {1, 2}

\* Option::None of an integer field; a shard id string that does not parse
None == 0
BadShard == -1

CallOf(r) == ((r - 1) \div CallSize) + 1
IdxOf(r) == ((r - 1) % CallSize) + 1

(***************************************************************************)
(* Sequence helpers.                                                       *)
(***************************************************************************)
RECURSIVE SumLen(_)
SumLen(s) == IF s = <<>> THEN 0 ELSE Head(s).len + SumLen(Tail(s))

RECURSIVE Flatten(_)
Flatten(ss) == IF ss = <<>> THEN <<>> ELSE Head(ss) \o Flatten(Tail(ss))

Range(s) == {s[i] : i \in DOMAIN s}

RECURSIVE SetToSeq(_)
SetToSeq(S) ==
    IF S = {} THEN <<>>
    ELSE LET x == CHOOSE y \in S : TRUE IN <<x>> \o SetToSeq(S \ {x})

(***************************************************************************)
(* Results and records (producer.rs).                                      *)
(***************************************************************************)
\* Result<Ack, Error>
OkRes(shard, seq) ==
    [ok |-> TRUE, shard_id |-> shard, sequence_number |-> seq, error |-> "none"]
ErrRes(e) ==
    [ok |-> FALSE, shard_id |-> None, sequence_number |-> None, error |-> e]
NoRes == ErrRes("none")

\* struct Record; acker is the id of the oneshot slot, None when absent;
\* predicted_shard_id is <<>> for Option::None and <<shard, generation>>;
\* tries is not a field of the code: it remembers, up to MaxTries, how
\* often the record went through the delay queue
Rec(key, len, pred, acker, children) ==
    [partition_key |-> key, len |-> len, predicted_shard_id |-> pred,
     acker |-> acker, children |-> children, tries |-> 0]

\* an ack that would serve the record's own acker before its children
RECURSIVE AckOwnFirst(_)
AckOwnFirst(rec) ==
    (IF rec.acker # None THEN <<rec.acker>> ELSE <<>>)
        \o Flatten([i \in DOMAIN rec.children |-> AckOwnFirst(rec.children[i])])

\* Record::ack visits the children first, recursively, then the own acker
RECURSIVE AckOrder(_)
AckOrder(rec) ==
    Flatten([i \in DOMAIN rec.children |-> AckOrder(rec.children[i])])
        \o (IF rec.acker # None THEN <<rec.acker>> ELSE <<>>)

(***************************************************************************)
(* State.                                                                  *)
(***************************************************************************)
VARIABLES
    slot,       \* [Recs -> oneshot channel]: st, the value sent, number of sends
    call,       \* [Calls -> Producer::submit invocation]
    submitCh,   \* the queue of mpsc::channel(1000), lib.rs:141
    rxDropped,  \* the receiver of the submit channel has been dropped
    agg,        \* [Shards -> buffer of that partition's RecordAggregator]
    batch,      \* buffer of the RecordBatcher of the batched stage
    inflight,   \* the spawned PutRecords tasks (KinesisSink::in_flight)
    retryCh,    \* the queue of mpsc::channel(10), sink.rs:43
    delayQ,     \* DelayQueue<Record> of the retry worker: [rec, left]
    rw,         \* the retry worker: [pc, rec]
    wpc,        \* the pipeline stream future (fut1 of lib.rs:161)
    shutdown,   \* the value of the watch channel of shutdown.rs
    hpc,        \* PipelineHandler::shutdown: "idle", "waiting", "returned"
    topo,       \* TopologyService: [gen, map, pending]
    actual,     \* the stream service's own key -> shard placement
    reshards,   \* number of reshardings of the stream so far
    unit        \* the operation under check when one is checked alone

\* the records of submit call c, in input order: the records are numbered
\* call by call, CallSize to a call, the last call taking what is left
CallRecs(c) ==
    [i \in 1..(IF c * CallSize <= Len(slot) THEN CallSize
               ELSE Len(slot) - (c - 1) * CallSize)
        |-> (c - 1) * CallSize + i]

pipevars == <<slot, call, submitCh, rxDropped, agg, batch, inflight, retryCh,
              delayQ, rw, wpc, shutdown, hpc, topo, actual, reshards>>

vars == <<pipevars, unit>>

(***************************************************************************)
(* oneshot channels and the futures waiting on them.                       *)
(* P is [slot, call, log]: a send or a drop of a oneshot sender resolves   *)
(* the slot and wakes the submit future parked on it, which puts it at the *)
(* tail of the FuturesUnordered ready queue; log lists the sends made.     *)
(***************************************************************************)
Wake(cl, a) ==
    LET c == CallOf(a)
        i == IdxOf(a)
    IN IF c \in DOMAIN cl /\ i \in DOMAIN cl[c].futs /\ cl[c].futs[i].st = "parked"
       THEN [cl EXCEPT ![c].futs[i].st = "queued",
                       ![c].queue = Append(cl[c].queue, i)]
       ELSE cl

\* oneshot::Sender::send: Err when the receiver is gone, which ack ignores
OneshotSend(P, a, result) ==
    IF P.slot[a].st = "rxgone" THEN [P EXCEPT !.log = Append(@, a)]
    ELSE [P EXCEPT !.slot[a] =
                      [st |-> "sent",
                       res |-> IF P.slot[a].st = "pending" THEN result ELSE P.slot[a].res,
                       n |-> IF P.slot[a].n < 2 THEN P.slot[a].n + 1 ELSE 2],
                   !.call = Wake(P.call, a),
                   !.log = Append(@, a)]

\* dropping a oneshot::Sender that was never used
OneshotDrop(P, a) ==
    IF P.slot[a].st # "pending" THEN P
    ELSE [P EXCEPT !.slot[a].st = "dropped", !.call = Wake(P.call, a)]

RECURSIVE SendAll(_, _, _)
SendAll(P, ackers, result) ==
    IF ackers = <<>> THEN P
    ELSE SendAll(OneshotSend(P, Head(ackers), result), Tail(ackers), result)

RECURSIVE DropAll(_, _)
DropAll(P, ackers) ==
    IF ackers = <<>> THEN P
    ELSE DropAll(OneshotDrop(P, Head(ackers)), Tail(ackers))

\* an ack that would serve the record's own acker only
AckOwnOnly(P, rec, result) ==
    SendAll(P, IF rec.acker # None THEN <<rec.acker>> ELSE <<>>, result)

\* Record::ack(self, result)
Ack(P, rec, result) == SendAll(P, AckOrder(rec), result)

\* dropping a Record drops every oneshot sender it owns (fields in
\* declaration order: acker, then children)
RECURSIVE DropOrder(_)
DropOrder(rec) ==
    (IF rec.acker # None THEN <<rec.acker>> ELSE <<>>)
        \o Flatten([i \in DOMAIN rec.children |-> DropOrder(rec.children[i])])

DropRecs(P, recs) ==
    DropAll(P, Flatten([i \in DOMAIN recs |-> DropOrder(recs[i])]))

\* the oneshot channels and the submit calls as they are, nothing sent yet
Now == [slot |-> slot, call |-> call, log |-> <<>>]

(***************************************************************************)
(* Producer::submit (producer.rs:159-185).                                 *)
(***************************************************************************)
\* one iteration of the for loop: a fresh oneshot, the record, the send
\* (which waits while the channel is full) and the push of the future
SubmitSend(c) ==
    /\ call[c].pc = "sending"
    /\ LET i == Len(call[c].futs) + 1
           r == CallRecs(c)[i]
           last == i = Len(CallRecs(c))
           next(ok) == [call EXCEPT
                          ![c].futs = Append(@, [sendok |-> ok, st |-> "queued"]),
                          ![c].queue = Append(@, i),
                          ![c].pc = IF last THEN "collect" ELSE "sending"]
       IN \/ /\ rxDropped
             /\ slot' = [slot EXCEPT ![r].st = "dropped"]
             /\ call' = next(FALSE)
             /\ UNCHANGED submitCh
          \/ /\ ~rxDropped
             /\ Len(submitCh) < SubmitCap
             /\ \E key \in Keys, len \in Lens :
                    submitCh' = Append(submitCh, Rec(key, len, <<>>, r, <<>>))
             /\ slot' = [slot EXCEPT ![r].st = "pending"]
             /\ call' = next(TRUE)
    /\ UNCHANGED <<rxDropped, agg, batch, inflight, retryCh, delayQ, rw, wpc,
                   shutdown, hpc, topo, actual, reshards, unit>>

\* the value the future of record i of call c resolves to, once ready
FutureOutput(c, i) ==
    LET r == CallRecs(c)[i]
    IN IF ~call[c].futs[i].sendok THEN ErrRes("WorkerDead")
       ELSE IF slot[r].st = "sent" THEN slot[r].res
       ELSE ErrRes("AckDropped")

\* stream.collect(): FuturesUnordered polls the future at the head of its
\* ready queue; a ready future's output is appended to the vector, a
\* pending one waits for its wake-up
CollectPoll(c) ==
    /\ call[c].pc = "collect"
    /\ call[c].queue # <<>>
    /\ LET i == Head(call[c].queue)
           r == CallRecs(c)[i]
           pending == call[c].futs[i].sendok /\ slot[r].st = "pending"
           out == Append(call[c].out, FutureOutput(c, i))
       IN call' = [call EXCEPT
                     ![c].queue = Tail(@),
                     ![c].futs[i].st = IF pending THEN "parked" ELSE "done",
                     ![c].out = IF pending THEN @ ELSE out,
                     ![c].pc = IF ~pending /\ Len(out) = Len(CallRecs(c))
                               THEN "done" ELSE "collect"]
    /\ UNCHANGED <<slot, submitCh, rxDropped, agg, batch, inflight, retryCh,
                   delayQ, rw, wpc, shutdown, hpc, topo, actual, reshards, unit>>

(***************************************************************************)
(* The reducers (producer.rs:85-120, aggregator.rs:48-88).                 *)
(***************************************************************************)
\* RecordBatcher::try_push accepts the item (cur_bytes is the sum of the
\* lengths of the buffered records)
BatcherAccepts(buffer, item, max_bytes, max_records) ==
    ~(Len(buffer) >= max_records \/ SumLen(buffer) + item.len > max_bytes)

\* a take whose aggregate would carry the reply slot of its first child
AggregatorTakeOwnAcker(buffer) ==
    Rec(buffer[1].partition_key, FrameBytes + SumLen(buffer),
        buffer[1].predicted_shard_id, buffer[1].acker, buffer)

\* RecordAggregator::take on a non-empty buffer: key and prediction of the
\* first child, framed payload, no acker, the buffered records as children
AggregatorTake(buffer) ==
    Rec(buffer[1].partition_key, FrameBytes + SumLen(buffer),
        buffer[1].predicted_shard_id, None, buffer)

(***************************************************************************)
(* KinesisSink::start_send (sink.rs:173-212): a task per non-empty batch.  *)
(***************************************************************************)
NewTask(item) ==
    [batch |-> item, phase |-> "rpc", i |-> 1, rpcok |-> TRUE,
     err |-> "none", gen |-> 0, kids |-> <<>>, inval |-> 0]

StartSend(tasks, item) ==
    IF item = <<>> THEN tasks ELSE tasks \cup {NewTask(item)}

\* the raw records a set of tasks carries
RECURSIVE Leaves(_)
Leaves(rec) ==
    IF rec.children = <<>> THEN <<rec>>
    ELSE Flatten([i \in DOMAIN rec.children |-> Leaves(rec.children[i])])

LeafIds(recs) == {l.acker : l \in Range(Flatten([i \in DOMAIN recs |-> Leaves(recs[i])]))}

(***************************************************************************)
(* The stream stages of PipelineBuilder::build (lib.rs:161-189).           *)
(* W is a pair [batch, tasks].                                             *)
(***************************************************************************)
\* the batched stage takes one aggregate: a rejected item flushes the
\* batch to the sink and is offered again
BatchPush(W, item) ==
    IF BatcherAccepts(W.batch, item, BatchMaxBytes, BatchMaxBytes)
    THEN [W EXCEPT !.batch = Append(@, item)]
    ELSE [batch |-> <<item>>, tasks |-> StartSend(W.tasks, W.batch)]

RECURSIVE BatchAll(_, _)
BatchAll(W, items) ==
    IF items = <<>> THEN W ELSE BatchAll(BatchPush(W, Head(items)), Tail(items))

\* a worker that would keep the prediction a record already carries
PredictKeep(rec) ==
    IF rec.predicted_shard_id # <<>> THEN rec
    ELSE [rec EXCEPT !.predicted_shard_id = <<topo.map[rec.partition_key], topo.gen>>]

\* a worker that would hand the record on with the prediction it came with
PredictNot(rec) == rec

\* topology.lookup_shard(record.hash_key())
Predict(rec) ==
    [rec EXCEPT !.predicted_shard_id = <<topo.map[rec.partition_key], topo.gen>>]

\* the worker takes a record from the channel, predicts its shard and
\* offers it to the aggregator of that shard; Partitioned::partition
\* unwraps the prediction and panics the worker on a record without one
WorkerRecv ==
    /\ wpc = "run"
    /\ ~shutdown
    /\ submitCh # <<>>
    /\ LET rec == Predict(Head(submitCh))
       IN IF rec.predicted_shard_id = <<>>
          THEN /\ wpc' = "panicked"
               /\ UNCHANGED <<agg, batch, inflight>>
          ELSE LET s == rec.predicted_shard_id[1]
                   fits == BatcherAccepts(agg[s], rec, AggMaxBytes, AggMaxRecords)
                   W == IF fits THEN [batch |-> batch, tasks |-> inflight]
                        ELSE BatchPush([batch |-> batch, tasks |-> inflight],
                                       AggregatorTake(agg[s]))
               IN /\ agg' = [agg EXCEPT ![s] = IF fits THEN Append(@, rec) ELSE <<rec>>]
                  /\ batch' = W.batch
                  /\ inflight' = W.tasks
                  /\ UNCHANGED wpc
    /\ submitCh' = Tail(submitCh)
    /\ UNCHANGED <<slot, call, rxDropped, retryCh, delayQ, rw, shutdown,
                   hpc, topo, actual, reshards, unit>>

\* the wait of one partition elapses: its aggregate goes downstream
AggTimer(s) ==
    /\ wpc = "run"
    /\ agg[s] # <<>>
    /\ LET W == BatchPush([batch |-> batch, tasks |-> inflight], AggregatorTake(agg[s]))
       IN /\ batch' = W.batch
          /\ inflight' = W.tasks
    /\ agg' = [agg EXCEPT ![s] = <<>>]
    /\ UNCHANGED <<slot, call, submitCh, rxDropped, retryCh, delayQ, rw, wpc,
                   shutdown, hpc, topo, actual, reshards, unit>>

\* the wait of the batch elapses: the batch goes to the sink
BatchTimer ==
    /\ wpc = "run"
    /\ batch # <<>>
    /\ inflight' = StartSend(inflight, batch)
    /\ batch' = <<>>
    /\ UNCHANGED <<slot, call, submitCh, rxDropped, agg, retryCh, delayQ, rw,
                   wpc, shutdown, hpc, topo, actual, reshards, unit>>

\* take_until(shutdown_rx) ends the source: every partial aggregate and
\* the partial batch are flushed, then the sink is closed
WorkerEnd ==
    /\ wpc = "run"
    /\ shutdown
    /\ LET parts == SetToSeq({s \in Shards : agg[s] # <<>>})
           W == BatchAll([batch |-> batch, tasks |-> inflight],
                         [i \in DOMAIN parts |-> AggregatorTake(agg[parts[i]])])
       IN /\ inflight' = StartSend(W.tasks, W.batch)
    /\ agg' = [s \in Shards |-> <<>>]
    /\ batch' = <<>>
    /\ wpc' = "closing"
    /\ UNCHANGED <<slot, call, submitCh, rxDropped, retryCh, delayQ, rw,
                   shutdown, hpc, topo, actual, reshards, unit>>

\* poll_close returns once no task is in flight; the stream future is
\* then dropped, and with it the receiver and what the channel still holds
WorkerClose ==
    /\ wpc = "closing"
    /\ inflight = {}
    /\ wpc' = "done"
    /\ rxDropped' = TRUE
    /\ LET P == DropRecs(Now, submitCh)
       IN slot' = P.slot /\ call' = P.call
    /\ submitCh' = <<>>
    /\ UNCHANGED <<agg, batch, inflight, retryCh, delayQ, rw, shutdown, hpc,
                   topo, actual, reshards, unit>>

(***************************************************************************)
(* The PutRecords task and its response handling (sink.rs:83-164,197-207). *)
(***************************************************************************)
Throughput == "ProvisionedThroughputExceededException"

\* the PutRecordsResultEntry values the stream service may give a record
Responses(rec) ==
    {[sequence_number |-> q, shard_id |-> actual[rec.partition_key], error_code |-> "none"]
        : q \in SeqNos}
    \cup {[sequence_number |-> 1, shard_id |-> BadShard, error_code |-> "none"],
          [sequence_number |-> 1, shard_id |-> None, error_code |-> "none"],
          [sequence_number |-> None, shard_id |-> None, error_code |-> Throughput],
          [sequence_number |-> None, shard_id |-> None, error_code |-> "InternalFailure"]}

\* a handle_record that would hand a failed entry's error to the ackers
HandleRecordSurface(response, rec) ==
    IF response.sequence_number # None /\ response.shard_id # None
    THEN [ok |-> TRUE, ack |-> OkRes(response.shard_id, response.sequence_number),
          err |-> "none", gen |-> 0]
    ELSE [ok |-> TRUE, ack |-> ErrRes("InternalFailure"), err |-> "none", gen |-> 0]

\* handle_record: Ok(Ack) or Err(Error)
HandleRecord(response, rec) ==
    IF response.sequence_number # None /\ response.shard_id # None
    THEN IF response.shard_id = BadShard
         THEN [ok |-> FALSE, ack |-> NoRes, err |-> "InvalidShard", gen |-> 0]
         ELSE IF rec.predicted_shard_id # <<>>
                 /\ response.shard_id # rec.predicted_shard_id[1]
         THEN [ok |-> FALSE, ack |-> NoRes, err |-> "IncorrectShardPrediction",
               gen |-> rec.predicted_shard_id[2]]
         ELSE [ok |-> TRUE, ack |-> OkRes(response.shard_id, response.sequence_number),
               err |-> "none", gen |-> 0]
    ELSE IF response.error_code = Throughput
    THEN [ok |-> FALSE, ack |-> NoRes, err |-> "ThroughputExceeded", gen |-> 0]
    ELSE [ok |-> FALSE, ack |-> NoRes, err |-> "InternalFailure", gen |-> 0]

\* a recover that would resubmit an aggregate as it is
RecoverWhole(rec) == <<rec>>

\* a recover that would resubmit everything twice
RecoverTwice(rec) ==
    (IF rec.children # <<>> THEN rec.children ELSE <<rec>>)
        \o (IF rec.children # <<>> THEN rec.children ELSE <<rec>>)

\* what ErrorHandler::recover resubmits: the children, else the record
RecoverKids(rec) == IF rec.children # <<>> THEN rec.children ELSE <<rec>>

\* a recover that would resubmit without invalidating the topology first
EnterRecoverNoInvalidate(t, i, err, gen) ==
    [t EXCEPT !.i = i, !.phase = "send", !.err = err, !.gen = gen,
              !.kids = RecoverKids(t.batch[i]), !.inval = 0]

\* the entry into ErrorHandler::recover(record, error) for record i: the
\* task runs to the first await of recover
EnterRecover(t, i, err, gen) ==
    [t EXCEPT !.i = i,
              !.phase = IF err = "IncorrectShardPrediction" THEN "inval" ELSE "send",
              !.err = err, !.gen = gen, !.kids = RecoverKids(t.batch[i]), !.inval = 0]

\* the task after record i is done with: the loop goes on to the next
\* record, or the task ends
Advance(t) ==
    IF t.i = Len(t.batch) THEN {}
    ELSE IF t.rpcok
    THEN {[t EXCEPT !.i = @ + 1, !.phase = "resp", !.err = "none", !.gen = 0,
                    !.kids = <<>>, !.inval = 0]}
    ELSE {EnterRecover(t, t.i + 1, "InternalFailure", 0)}

\* whether the service takes the request: it refuses one with a record
\* larger than it accepts
ServiceAccepts(item) == \A i \in DOMAIN item : item[i].len <= ServiceMaxBytes

\* one iteration of the loop of handle_response: Ok(ack) acks the record,
\* Err(e) hands it to recover
HandleWith(t, response) ==
    LET h == HandleRecord(response, t.batch[t.i])
        P == Ack(Now, t.batch[t.i], h.ack)
    IN IF h.ok
       THEN /\ slot' = P.slot
            /\ call' = P.call
            /\ inflight' = (inflight \ {t}) \cup Advance(t)
       ELSE /\ inflight' = (inflight \ {t}) \cup {EnterRecover(t, t.i, h.err, h.gen)}
            /\ UNCHANGED <<slot, call>>

\* the entry is any the stream service may give the record
HandleNext(t) == \E response \in Responses(t.batch[t.i]) : HandleWith(t, response)

\* client.put_records(input).await returns Ok(response): handle_response
\* starts with the first record
RpcOk(t) ==
    /\ t \in inflight
    /\ t.phase = "rpc"
    /\ ServiceAccepts(t.batch)
    /\ HandleNext(t)
    /\ UNCHANGED <<submitCh, rxDropped, agg, batch, retryCh, delayQ, rw, wpc,
                   shutdown, hpc, topo, actual, reshards, unit>>

\* the loop of handle_response reaches the next record
HandleEntry(t) ==
    /\ t \in inflight
    /\ t.phase = "resp"
    /\ HandleNext(t)
    /\ UNCHANGED <<submitCh, rxDropped, agg, batch, retryCh, delayQ, rw, wpc,
                   shutdown, hpc, topo, actual, reshards, unit>>

\* client.put_records(input).await returns Err(e): every record of the
\* batch is recovered as InternalFailure, the first one now
RpcErr(t) ==
    /\ t \in inflight
    /\ t.phase = "rpc"
    /\ inflight' = (inflight \ {t})
                   \cup {EnterRecover([t EXCEPT !.rpcok = FALSE], 1, "InternalFailure", 0)}
    /\ UNCHANGED <<slot, call, submitCh, rxDropped, agg, batch, retryCh, delayQ,
                   rw, wpc, shutdown, hpc, topo, actual, reshards, unit>>

\* an invalidate that would schedule a refresh whatever generation is named
InvalidateAlways(tp, generation) == [tp EXCEPT !.pending = TRUE]

\* TopologyService::invalidate(generation): a refresh is scheduled when
\* the generation named is the current one
Invalidate(tp, generation) ==
    IF generation = tp.gen THEN [tp EXCEPT !.pending = TRUE] ELSE tp

\* recover: self.topology.invalidate(generation).await
RecoverInvalidate(t) ==
    /\ t \in inflight
    /\ t.phase = "inval"
    /\ topo' = Invalidate(topo, t.gen)
    /\ inflight' = (inflight \ {t}) \cup {[t EXCEPT !.phase = "send", !.inval = t.gen]}
    /\ UNCHANGED <<slot, call, submitCh, rxDropped, agg, batch, retryCh, delayQ,
                   rw, wpc, shutdown, hpc, actual, reshards, unit>>

\* a recover that would keep the record it has handed to the retry path
AfterSendKeep(t) == {t}

\* the task once the record at the head of kids has been handed over
AfterSend(t) ==
    IF Len(t.kids) = 1 THEN Advance(t) ELSE {[t EXCEPT !.kids = Tail(@)]}

\* recover: let _ = self.retry.send(child).await; the send waits while the
\* channel is full and fails, dropping the record, once the retry worker
\* is gone
RecoverSend(t) ==
    /\ t \in inflight
    /\ t.phase = "send"
    /\ \/ /\ rw.pc = "exited"
          /\ LET P == DropRecs(Now, <<Head(t.kids)>>)
             IN slot' = P.slot /\ call' = P.call
          /\ UNCHANGED retryCh
       \/ /\ rw.pc # "exited"
          /\ Len(retryCh) < RetryCap
          /\ retryCh' = Append(retryCh, Head(t.kids))
          /\ UNCHANGED <<slot, call>>
    /\ inflight' = (inflight \ {t}) \cup AfterSend(t)
    /\ UNCHANGED <<submitCh, rxDropped, agg, batch, delayQ, rw, wpc, shutdown,
                   hpc, topo, actual, reshards, unit>>

(***************************************************************************)
(* The retry worker (sink.rs:47-72).                                       *)
(***************************************************************************)
NoRec == Rec("", 0, <<>>, None, <<>>)

\* the orders in which the elements of a set may be visited
Orders(S) == {q \in [1..Cardinality(S) -> S] : \A i, j \in DOMAIN q : q[i] = q[j] => i = j}

\* the record as it enters the delay queue
Delayed(rec) == [rec EXCEPT !.tries = IF @ < MaxTries THEN @ + 1 ELSE @]

\* recv = rx.recv(), Some(record): delay.insert(record, backoff_delay)
RetryRecv ==
    /\ rw.pc = "select"
    /\ retryCh # <<>>
    /\ delayQ' = delayQ \cup {[rec |-> Delayed(Head(retryCh)), left |-> RetryBackoff]}
    /\ retryCh' = Tail(retryCh)
    /\ UNCHANGED <<slot, call, submitCh, rxDropped, agg, batch, inflight, rw, wpc,
                   shutdown, hpc, topo, actual, reshards, unit>>

\* time passes: every running delay gets one tick closer to its expiry
Tick ==
    /\ \E d \in delayQ : d.left > 0
    /\ delayQ' = {[d EXCEPT !.left = IF @ > 0 THEN @ - 1 ELSE 0] : d \in delayQ}
    /\ UNCHANGED <<slot, call, submitCh, rxDropped, agg, batch, inflight, retryCh,
                   rw, wpc, shutdown, hpc, topo, actual, reshards, unit>>

\* a retry worker that would take a record out of the delay queue before
\* its delay has run out
RetryExpiredEarly ==
    /\ rw.pc = "select"
    /\ \E d \in delayQ :
          /\ delayQ' = delayQ \ {d}
          /\ rw' = [pc |-> "sending", rec |-> d.rec]
    /\ UNCHANGED <<slot, call, submitCh, rxDropped, agg, batch, inflight, retryCh,
                   wpc, shutdown, hpc, topo, actual, reshards, unit>>

\* poll_expired yields a record: the worker starts retry.send(record)
RetryExpired ==
    /\ rw.pc = "select"
    /\ \E d \in delayQ :
          /\ d.left = 0
          /\ delayQ' = delayQ \ {d}
          /\ rw' = [pc |-> "sending", rec |-> d.rec]
    /\ UNCHANGED <<slot, call, submitCh, rxDropped, agg, batch, inflight, retryCh,
                   wpc, shutdown, hpc, topo, actual, reshards, unit>>

\* let _ = retry.send(record).await: waits while the submit channel is
\* full, fails and drops the record once its receiver is gone
RetrySend ==
    /\ rw.pc = "sending"
    /\ \/ /\ rxDropped
          /\ LET P == DropRecs(Now, <<rw.rec>>)
             IN slot' = P.slot /\ call' = P.call
          /\ UNCHANGED submitCh
       \/ /\ ~rxDropped
          /\ Len(submitCh) < SubmitCap
          /\ submitCh' = Append(submitCh, rw.rec)
          /\ UNCHANGED <<slot, call>>
    /\ rw' = [pc |-> "select", rec |-> NoRec]
    /\ UNCHANGED <<rxDropped, agg, batch, inflight, retryCh, delayQ, wpc,
                   shutdown, hpc, topo, actual, reshards, unit>>

\* the worker leaves its loop: its channel and its delay queue are dropped
RetryLeave ==
    /\ rw' = [pc |-> "exited", rec |-> NoRec]
    /\ \E q \in Orders(delayQ) :
          LET P == DropRecs(DropRecs(Now, retryCh), [i \in DOMAIN q |-> q[i].rec])
          IN slot' = P.slot /\ call' = P.call
    /\ retryCh' = <<>>
    /\ delayQ' = {}
    /\ UNCHANGED <<submitCh, rxDropped, agg, batch, inflight, wpc, shutdown, hpc,
                   topo, actual, reshards, unit>>

\* _ = &mut shutdown => break
RetryShutdown ==
    /\ rw.pc = "select"
    /\ shutdown
    /\ RetryLeave

\* recv = rx.recv(), None => break: every ErrorHandler clone is gone
RetryClosed ==
    /\ rw.pc = "select"
    /\ wpc = "done"
    /\ inflight = {}
    /\ retryCh = <<>>
    /\ RetryLeave

(***************************************************************************)
(* The topology service and the stream service behind it.                  *)
(***************************************************************************)
OneShard == [k \in Keys |-> 1]
TwoShards == [k \in Keys |-> IF k = "k1" THEN 1 ELSE 2]

\* a refresh that would change the snapshot of the current generation
PublishInPlace(tp, placement) == [tp EXCEPT !.map = placement, !.pending = FALSE]

\* the refresh publishes the placement list_shards gave as the snapshot of
\* the next generation
Publish(tp, placement) == [gen |-> tp.gen + 1, map |-> placement, pending |-> FALSE]

\* the stream is resharded
Reshard ==
    /\ reshards < MaxReshard
    /\ reshards' = reshards + 1
    /\ actual' = IF actual = OneShard THEN TwoShards ELSE OneShard
    /\ UNCHANGED <<slot, call, submitCh, rxDropped, agg, batch, inflight, retryCh,
                   delayQ, rw, wpc, shutdown, hpc, topo, unit>>

\* the topology worker serves a scheduled refresh: list_shards, then the
\* new snapshot is published under the next generation
TopoRefresh ==
    /\ topo.pending
    /\ ~shutdown
    /\ topo' = Publish(topo, actual)
    /\ UNCHANGED <<slot, call, submitCh, rxDropped, agg, batch, inflight, retryCh,
                   delayQ, rw, wpc, shutdown, hpc, actual, reshards, unit>>

(***************************************************************************)
(* PipelineHandler::shutdown (lib.rs:31-36, shutdown.rs:40-44).            *)
(***************************************************************************)
\* self.worker_shutdown.shutdown()
ShutdownCall ==
    /\ hpc = "idle"
    /\ shutdown' = TRUE
    /\ hpc' = "waiting"
    /\ UNCHANGED <<slot, call, submitCh, rxDropped, agg, batch, inflight, retryCh,
                   delayQ, rw, wpc, topo, actual, reshards, unit>>

\* the worker task is complete when the three joined futures are
WorkerTaskDone == wpc = "done" /\ rw.pc = "exited"

\* self.worker_handle.await returns
ShutdownReturn ==
    /\ hpc = "waiting"
    /\ WorkerTaskDone
    /\ hpc' = "returned"
    /\ UNCHANGED <<slot, call, submitCh, rxDropped, agg, batch, inflight, retryCh,
                   delayQ, rw, wpc, shutdown, topo, actual, reshards, unit>>

\* no operation is checked alone
Idle == [op |-> "none"]

(***************************************************************************)
(* The specification.                                                      *)
(***************************************************************************)
\* the pipeline right after PipelineBuilder::build
PipeInit ==
    /\ slot = [r \in Recs |-> [st |-> "none", res |-> NoRes, n |-> 0]]
    /\ call = [c \in Calls |-> [pc |-> "sending", futs |-> <<>>, queue |-> <<>>,
                                out |-> <<>>]]
    /\ submitCh = <<>>
    /\ rxDropped = FALSE
    /\ agg = [s \in Shards |-> <<>>]
    /\ batch = <<>>
    /\ inflight = {}
    /\ retryCh = <<>>
    /\ delayQ = {}
    /\ rw = [pc |-> "select", rec |-> NoRec]
    /\ wpc = "run"
    /\ shutdown = FALSE
    /\ hpc = "idle"
    /\ topo = [gen |-> 1, map |-> OneShard, pending |-> FALSE]
    /\ actual = OneShard
    /\ reshards = 0

Init == PipeInit /\ unit = Idle

Next ==
    \/ \E c \in DOMAIN call : SubmitSend(c)
    \/ \E c \in DOMAIN call : CollectPoll(c)
    \/ WorkerRecv
    \/ \E s \in Shards : AggTimer(s)
    \/ BatchTimer
    \/ WorkerEnd
    \/ WorkerClose
    \/ \E t \in inflight : RpcOk(t)
    \/ \E t \in inflight : RpcErr(t)
    \/ \E t \in inflight : HandleEntry(t)
    \/ \E t \in inflight : RecoverInvalidate(t)
    \/ \E t \in inflight : RecoverSend(t)
    \/ RetryRecv
    \/ Tick
    \/ RetryExpired
    \/ RetrySend
    \/ RetryShutdown
    \/ RetryClosed
    \/ Reshard
    \/ TopoRefresh
    \/ ShutdownCall
    \/ ShutdownReturn

Spec == Init /\ [][Next]_vars

(***************************************************************************)
(* Properties of Producer::submit.                                         *)
(***************************************************************************)
\* the result of record i of call c, as the submitter of that record is owed it
Owed(c, i) == FutureOutput(c, i)

\* C1: a finished submit call of n records returns n results, and result i
\* is the AckResult of the i-th input record, whatever the order of the acks
C1_ResultsInInputOrder ==
    \A c \in DOMAIN call :
        call[c].pc = "done" =>
            /\ Len(call[c].out) = Len(CallRecs(c))
            /\ \A i \in DOMAIN call[c].out : call[c].out[i] = Owed(c, i)

(***************************************************************************)
(* Record::ack checked alone on record trees (producer.rs:39-47).          *)
(***************************************************************************)
\* number of oneshot channels of the trees
NAck == 3

AckIds == 1..NAck

Leaf(a) == Rec("k1", 1, <<>>, a, <<>>)

\* records of depth at most two below the root, with or without ackers
TreeLeaves == {Leaf(a) : a \in 0..NAck}
TreeMids == TreeLeaves \cup {Rec("k1", 1, <<>>, a, <<l>>) : a \in 0..NAck, l \in TreeLeaves}
TreeRoots ==
    {Rec("k1", 1, <<>>, a, kids) :
        a \in 0..NAck,
        kids \in {<<>>} \cup {<<m>> : m \in TreeMids}
                 \cup {<<m1, m2>> : m1 \in TreeMids, m2 \in TreeMids}}

\* every record of a tree, the root included
RECURSIVE Nodes(_)
Nodes(rec) == {rec} \cup UNION {Nodes(rec.children[i]) : i \in DOMAIN rec.children}

AckerSet(rec) == {n.acker : n \in {m \in Nodes(rec) : m.acker # None}}

RECURSIVE NodeCount(_)
NodeCount(rec) ==
    (IF rec.acker # None THEN 1 ELSE 0)
    + SumLen([i \in DOMAIN rec.children |-> [len |-> NodeCount(rec.children[i])]])

\* a oneshot sender is owned by one record
Trees == {t \in TreeRoots : NodeCount(t) = Cardinality(AckerSet(t))}

AckInit ==
    /\ PipeInit
    /\ \E t \in Trees, res \in {OkRes(1, 1), ErrRes("WorkerDead")},
          gone \in SUBSET AckIds :
          unit = [op |-> "ack", rec |-> t, result |-> res, done |-> FALSE,
                  before |-> [a \in AckIds |->
                                [st |-> IF a \in gone THEN "rxgone" ELSE "pending",
                                 res |-> NoRes, n |-> 0]],
                  slot |-> [a \in AckIds |->
                                [st |-> IF a \in gone THEN "rxgone" ELSE "pending",
                                 res |-> NoRes, n |-> 0]],
                  log |-> <<>>]

\* record.ack(result)
UnitAck ==
    /\ unit.op = "ack"
    /\ ~unit.done
    /\ LET P == Ack([slot |-> unit.slot, call |-> <<>>, log |-> <<>>], unit.rec,
                    unit.result)
       IN unit' = [unit EXCEPT !.slot = P.slot, !.log = P.log, !.done = TRUE]
    /\ UNCHANGED pipevars

AckNext == UnitAck

AckSpec == AckInit /\ [][AckNext]_vars

\* the positions of a in the log of sends
Sends(a) == {i \in DOMAIN unit.log : unit.log[i] = a}

\* C2: ack(result) sends result once on the reply slot of the record and of
\* every descendant, children before the record's own slot, and a slot
\* whose receiver is gone does not keep the others from being served
C2_AckFanOut ==
    (unit.op = "ack" /\ unit.done) =>
        /\ \A a \in AckIds :
              IF a \in AckerSet(unit.rec)
              THEN /\ Cardinality(Sends(a)) = 1
                   /\ IF unit.before[a].st = "pending"
                      THEN unit.slot[a] = [st |-> "sent", res |-> unit.result, n |-> 1]
                      ELSE unit.slot[a] = unit.before[a]
              ELSE Sends(a) = {} /\ unit.slot[a] = unit.before[a]
        /\ \A n \in Nodes(unit.rec) :
              n.acker # None =>
                 \A i \in DOMAIN n.children : \A d \in AckerSet(n.children[i]) :
                    \A p \in Sends(d), q \in Sends(n.acker) : p < q

\* a tree of depth two with three ackers, acked, the first slot served
\* having lost its receiver
C2_Witness ==
    /\ unit.op = "ack" /\ unit.done
    /\ Len(unit.log) = 3
    /\ \E n \in Nodes(unit.rec) : n # unit.rec /\ n.children # <<>>
    /\ unit.rec.acker # None
    /\ unit.before[unit.log[1]].st = "rxgone"
    /\ unit.slot[unit.log[3]].st = "sent"


(***************************************************************************)
(* Ownership of the submitted records.                                     *)
(***************************************************************************)
\* the raw records below each record of a sequence, one entry per occurrence
LeavesOf(recs) == Flatten([i \in DOMAIN recs |-> Leaves(recs[i])])

\* the records a task still owns: those of the batch it has not come to,
\* the one it is handling, or what is left of it to hand to the retry path
TaskHolds(t) ==
    LeavesOf(SubSeq(t.batch, t.i + 1, Len(t.batch)))
        \o (IF t.phase \in {"rpc", "resp"} THEN Leaves(t.batch[t.i])
            ELSE LeavesOf(t.kids))

\* every place a raw record can be in, as one sequence of occurrences
Held ==
    LET tasks == SetToSeq(inflight)
        delays == SetToSeq(delayQ)
    IN LeavesOf(submitCh)
       \o Flatten([i \in DOMAIN tasks |-> TaskHolds(tasks[i])])
       \o Flatten(SetToSeq({agg[s] : s \in Shards}))
       \o LeavesOf(batch)
       \o LeavesOf(retryCh)
       \o LeavesOf([i \in DOMAIN delays |-> delays[i].rec])
       \o (IF rw.pc = "sending" THEN Leaves(rw.rec) ELSE <<>>)

\* the number of places among held that hold the record of reply slot r
Owners(held, r) == Cardinality({i \in DOMAIN held : held[i].acker = r})

\* C3: a submitted record whose reply slot is unresolved is held in exactly
\* one place of the pipeline, a record whose slot is resolved is held
\* nowhere, and no reply slot is sent to more than once
C3_SingleOwner ==
    LET held == Held
    IN \A r \in DOMAIN slot :
          /\ slot[r].n <= 1
          /\ Owners(held, r) = (IF slot[r].st = "pending" THEN 1 ELSE 0)

\* both records are unresolved after a failed attempt: one is back in the
\* submit channel, the other still waits in the retry worker
C3_Witness ==
    /\ \A r \in DOMAIN slot : slot[r].st = "pending"
    /\ \E i \in DOMAIN submitCh : submitCh[i].tries > 0
    /\ \/ \E d \in delayQ : d.rec.acker # None
       \/ rw.pc = "sending"


(***************************************************************************)
(* What a submitter can observe, and what becomes of a failed entry.       *)
(***************************************************************************)
Surfaced == {"WorkerDead", "AckDropped"}

Recovered == {"ThroughputExceeded", "InternalFailure", "IncorrectShardPrediction",
              "InvalidShard"}

\* no reply slot holds anything but a success, and no submit call returns
\* anything but a success, WorkerDead or AckDropped
OnlySurfaced ==
    /\ \A r \in DOMAIN slot : slot[r].st = "sent" => slot[r].res.ok
    /\ \A c \in DOMAIN call : \A i \in DOMAIN call[c].out :
          call[c].out[i].ok \/ call[c].out[i].error \in Surfaced

\* a task that is done with the response entry of a record has either
\* acked the record with a success or is in recover with one of the four
\* per-record errors, holding the record's children (or the record) for the
\* retry path, and has sent nothing to a reply slot
EntryAckedOrRecovered ==
    \A t \in inflight :
        (t.phase \in {"rpc", "resp"} /\ t \notin inflight') =>
            \/ \A r \in LeafIds(<<t.batch[t.i]>>) : slot'[r].st = "sent" /\ slot'[r].res.ok
            \/ /\ slot' = slot
               /\ \E u \in inflight' \ inflight :
                     /\ u.batch = t.batch /\ u.i = t.i
                     /\ u.phase \in {"inval", "send"}
                     /\ u.err \in Recovered
                     /\ u.kids = (IF t.batch[t.i].children # <<>>
                                  THEN t.batch[t.i].children ELSE <<t.batch[t.i]>>)

\* C4: a submitter observes only success, WorkerDead or AckDropped; a
\* per-record error is never sent to a reply slot but always takes the
\* record to recover, however often the record has been retried before
C4_ErrorsOnlyRecover == []OnlySurfaced /\ [][EntryAckedOrRecovered]_vars

\* a record that went through the delay queue before has failed again and
\* is in recover once more, its reply slot still unresolved
C4_Witness ==
    \E t \in inflight :
        /\ t.phase \in {"inval", "send"}
        /\ t.err \in Recovered
        /\ \E k \in DOMAIN t.kids :
              /\ t.kids[k].tries >= MaxTries
              /\ t.kids[k].acker # None
              /\ slot[t.kids[k].acker].st = "pending"


(***************************************************************************)
(* PipelineHandler::shutdown called on a loaded pipeline: the runs start   *)
(* at the call, with the records anywhere the pipeline can hold them.      *)
(***************************************************************************)
\* number of raw records in the pipeline when shutdown is called
NShut == 4

ShutRecs == 1..NShut
ShutCalls == 1..((NShut + CallSize - 1) \div CallSize)

\* where a record can be, from the far end of the pipeline back to the caller
PlaceSeq == <<"rw", "delayQ", "retryCh", "task", "submitCh", "unsent">>
Places == Range(PlaceSeq)
Depth(p) == CHOOSE i \in DOMAIN PlaceSeq : PlaceSeq[i] = p

\* record r as submitted, and as it is once the worker has predicted its shard
Raw(r) == Rec("k2", 1, <<>>, r, <<>>)
Seen(r) == Rec("k2", 1, <<1, 1>>, r, <<>>)

\* the records a placement puts in place p, in the order of their numbers
Placed(pl, p) == SelectSeq([r \in ShutRecs |-> r], LAMBDA r : pl[r] = p)

\* the placements taken: each channel is empty or full, the retry worker is
\* idle or sending, the delay queue holds a record or none, no request is
\* in flight or one of up to two records is, and the reducers are empty;
\* the records are numbered by how far they have got, so that a call's
\* unsent records are its last
Placements ==
    {pl \in [ShutRecs -> Places] :
        /\ \A r \in ShutRecs : r + 1 \in ShutRecs => Depth(pl[r]) <= Depth(pl[r + 1])
        /\ Len(Placed(pl, "rw")) <= 1
        /\ Len(Placed(pl, "delayQ")) <= 1
        /\ Len(Placed(pl, "retryCh")) <= RetryCap
        /\ Len(Placed(pl, "task")) <= 2
        /\ Len(Placed(pl, "submitCh")) <= SubmitCap}

ShutdownInit ==
    \E pl \in Placements :
        LET at(p) == Placed(pl, p)
            sent(c) == SelectSeq([i \in 1..CallSize |-> i],
                                 LAMBDA i : (c - 1) * CallSize + i \in ShutRecs
                                            /\ pl[(c - 1) * CallSize + i] # "unsent")
            all(c) == {i \in 1..CallSize : (c - 1) * CallSize + i \in ShutRecs}
        IN /\ slot = [r \in ShutRecs |->
                        [st |-> IF pl[r] = "unsent" THEN "none" ELSE "pending",
                         res |-> NoRes, n |-> 0]]
           /\ call = [c \in ShutCalls |->
                        [pc |-> IF Len(sent(c)) = Cardinality(all(c))
                                THEN "collect" ELSE "sending",
                         futs |-> [i \in DOMAIN sent(c) |->
                                      [sendok |-> TRUE, st |-> "queued"]],
                         queue |-> sent(c), out |-> <<>>]]
           /\ submitCh = [i \in DOMAIN at("submitCh") |-> Raw(at("submitCh")[i])]
           /\ agg = [s \in Shards |-> <<>>]
           /\ batch = <<>>
           /\ inflight = StartSend({}, [i \in DOMAIN at("task") |->
                                           AggregatorTake(<<Seen(at("task")[i])>>)])
           /\ retryCh = [i \in DOMAIN at("retryCh") |-> Seen(at("retryCh")[i])]
           /\ delayQ = {[rec |-> Delayed(Seen(r)), left |-> RetryBackoff] :
                           r \in Range(at("delayQ"))}
           /\ rw = IF at("rw") = <<>> THEN [pc |-> "select", rec |-> NoRec]
                   ELSE [pc |-> "sending", rec |-> Delayed(Seen(at("rw")[1]))]
    /\ rxDropped = FALSE
    /\ wpc = "run"
    /\ shutdown = TRUE
    /\ hpc = "waiting"
    /\ topo = [gen |-> 1, map |-> OneShard, pending |-> FALSE]
    /\ actual \in {OneShard, TwoShards}
    /\ reshards = MaxReshard
    /\ unit = Idle

\* what can run once the latch is set
ShutdownNext ==
    \/ \E c \in DOMAIN call : SubmitSend(c)
    \/ \E c \in DOMAIN call : CollectPoll(c)
    \/ WorkerEnd
    \/ WorkerClose
    \/ \E t \in inflight : RpcOk(t)
    \/ \E t \in inflight : RpcErr(t)
    \/ \E t \in inflight : HandleEntry(t)
    \/ \E t \in inflight : RecoverInvalidate(t)
    \/ \E t \in inflight : RecoverSend(t)
    \/ RetryRecv
    \/ Tick
    \/ RetryExpired
    \/ RetrySend
    \/ RetryShutdown
    \/ RetryClosed
    \/ ShutdownReturn

\* once the latch is set nothing takes from the submit channel any more, so
\* a record passes the retry path at most once and every run is finite:
\* the one condition needed is that the runtime does not stop while a
\* task, a future or a request can go on
ShutdownFair == WF_vars(ShutdownNext)

ShutdownSpec == ShutdownInit /\ [][ShutdownNext]_vars /\ ShutdownFair

\* shutdown() has returned, every submit call has returned its vector of
\* success, WorkerDead and AckDropped, and no reply slot is pending
ShutdownDone ==
    /\ hpc = "returned"
    /\ \A c \in DOMAIN call :
          /\ call[c].pc = "done"
          /\ \A i \in DOMAIN call[c].out :
                call[c].out[i].ok \/ call[c].out[i].error \in Surfaced
    /\ \A r \in DOMAIN slot : slot[r].st # "pending"

\* C5: once shutdown() is called, whatever the submit channel, the retry
\* channel, the delay queue and the in-flight requests hold at that time,
\* shutdown() and every submit call eventually return and no reply slot
\* stays pending
C5_ShutdownCompletes == <>ShutdownDone


(***************************************************************************)
(* The positions of the error results of Producer::submit.                 *)
(***************************************************************************)
\* C6: a record pushed when the worker channel is closed has WorkerDead at
\* its position of the returned vector, and the vector has an entry for
\* every record of the call
C6_WorkerDeadAtPosition ==
    \A c \in DOMAIN call :
        call[c].pc = "done" =>
            /\ Len(call[c].out) = Len(CallRecs(c))
            /\ \A i \in DOMAIN call[c].futs :
                  ~call[c].futs[i].sendok => call[c].out[i] = ErrRes("WorkerDead")

\* C7: a record that was pushed and whose reply slot was dropped unused has
\* AckDropped at its position of the vector the call returns
C7_AckDroppedAtPosition ==
    \A c \in DOMAIN call :
        call[c].pc = "done" =>
            \A i \in DOMAIN call[c].futs :
                (call[c].futs[i].sendok /\ slot[CallRecs(c)[i]].st = "dropped")
                    => call[c].out[i] = ErrRes("AckDropped")

(***************************************************************************)
(* Failed sends of the retry path.                                         *)
(***************************************************************************)
\* every reply slot of rec has been sent WorkerDead in the next state
FiresWorkerDead(rec) ==
    \A r \in LeafIds(<<rec>>) :
        slot'[r].st = "sent" /\ slot'[r].res = ErrRes("WorkerDead")

\* C8: when the send of recover into the retry channel fails because the
\* retry worker is gone, or the retry worker's send into the submit channel
\* fails because its receiver is gone, the record's acker fires WorkerDead
C8_RetrySendFailureFiresWorkerDead ==
    [][/\ (rw.pc = "sending" /\ rxDropped /\ rw'.pc = "select")
            => FiresWorkerDead(rw.rec)
       /\ \A t \in inflight :
            (t.phase = "send" /\ rw.pc = "exited" /\ t \notin inflight')
                => FiresWorkerDead(Head(t.kids))]_vars

(***************************************************************************)
(* Oversized records at the sink.                                          *)
(***************************************************************************)
\* C9: no PutRecords request carries a record larger than the stream
\* service accepts: the sink rejects it with RecordTooLarge instead
C9_SinkRejectsOversized ==
    \A t \in inflight : \A i \in DOMAIN t.batch : t.batch[i].len <= ServiceMaxBytes

(***************************************************************************)
(* Shard mispredictions.                                                   *)
(***************************************************************************)
Mispredicted == "IncorrectShardPrediction"

\* everything on the way back to the submit stage
RetryPath ==
    Range(retryCh) \cup {d.rec : d \in delayQ}
        \cup (IF rw.pc = "sending" THEN {rw.rec} ELSE {})

\* a task whose record was answered from another shard than the predicted
\* one is in recover with the generation of the prediction, has invalidated
\* the topology at that generation before it hands anything over, holds
\* what is left of the children (never the aggregate), their reply slots
\* unresolved; nothing on the retry path is an aggregate
MispredictionState ==
    /\ \A t \in inflight :
          t.err = Mispredicted =>
             LET rec == t.batch[t.i]
                 all == IF rec.children # <<>> THEN rec.children ELSE <<rec>>
             IN /\ t.gen = rec.predicted_shard_id[2]
                /\ t.phase \in {"inval", "send"}
                /\ t.phase = "inval" => (t.kids = all /\ t.inval = 0)
                /\ t.phase = "send" => t.inval = rec.predicted_shard_id[2]
                /\ \E k \in 1..Len(all) : t.kids = SubSeq(all, k, Len(all))
                /\ \A r \in LeafIds(t.kids) : slot[r].st = "pending"
    /\ \A rec \in RetryPath : rec.children = <<>>

\* the record a task is at lies on another shard than the predicted one
Misplaced(t) ==
    actual[t.batch[t.i].partition_key] # t.batch[t.i].predicted_shard_id[1]

\* the steps of a task about a misplaced record: the response entry of the
\* record acks nothing and takes the task into recover, where an entry
\* with a sequence number and a shard id starts with the invalidation at
\* the generation of the prediction; the invalidation schedules a refresh
\* if that generation is still the current one and moves no record; a
\* later step hands the first of the children left to the retry channel
\* and sends to no reply slot
MispredictionStep ==
    \A t \in inflight :
        t \notin inflight' =>
            /\ (t.phase \in {"rpc", "resp"} /\ Misplaced(t)) =>
                  /\ slot' = slot /\ retryCh' = retryCh
                  /\ \E u \in inflight' \ inflight :
                        /\ u.batch = t.batch /\ u.i = t.i
                        /\ u.phase \in {"inval", "send"}
                        /\ (u.phase = "inval") = (u.err = Mispredicted)
            /\ (t.err = Mispredicted /\ t.phase = "inval") =>
                  /\ topo' = [topo EXCEPT !.pending =
                                 @ \/ topo.gen = t.batch[t.i].predicted_shard_id[2]]
                  /\ retryCh' = retryCh
                  /\ slot' = slot
            /\ (t.err = Mispredicted /\ t.phase = "send") =>
                  /\ \/ retryCh' = Append(retryCh, Head(t.kids))
                     \/ rw.pc = "exited"
                  /\ topo' = topo
                  /\ \A r \in DOMAIN slot : slot'[r].st = "sent" => slot'[r] = slot[r]

\* C10: on a shard misprediction the topology is invalidated at the
\* generation stored with the prediction before any record goes to the
\* retry path, the children are then resubmitted one by one, the aggregate
\* never is, and no ack is delivered
C10_MispredictionRecovery == []MispredictionState /\ [][MispredictionStep]_vars

\* a mispredicted aggregate of two records, the topology invalidated and a
\* refresh scheduled, its first child on the retry path and its second
\* still held by recover
C10_Witness ==
    \E t \in inflight :
        /\ t.err = Mispredicted
        /\ t.phase = "send"
        /\ Len(t.batch[t.i].children) = 2
        /\ Len(t.kids) = 1
        /\ t.batch[t.i].children[1] \in RetryPath
        /\ topo.pending


(***************************************************************************)
(* The recovery rule for the failed records of a request.                  *)
(***************************************************************************)
\* what is to go back to the retry path for a failed record
Resubmitted(rec) == IF rec.children = <<>> THEN <<rec>> ELSE rec.children

\* a task in recover holds what is left of the children of the failed
\* record (of the record itself when it has none); after a failed RPC the
\* error is InternalFailure; the retry path holds no aggregate and no
\* record whose reply slot is resolved
RecoveryState ==
    /\ \A t \in inflight :
          t.phase \in {"inval", "send"} =>
             LET all == Resubmitted(t.batch[t.i])
             IN /\ \E k \in 1..Len(all) : t.kids = SubSeq(all, k, Len(all))
                /\ ~t.rpcok => (t.err = "InternalFailure" /\ t.phase = "send")
    /\ \A rec \in RetryPath :
          /\ rec.children = <<>>
          /\ rec.acker # None
          /\ slot[rec.acker].st = "pending"

\* the response entry of the record a task is at: the record is acked with
\* a success and nothing goes to the retry channel, or the task enters
\* recover with the children of the record
EntryOutcome(t) ==
    \/ /\ \A r \in LeafIds(<<t.batch[t.i]>>) : slot'[r].st = "sent" /\ slot'[r].res.ok
       /\ retryCh' = retryCh
       /\ \A u \in inflight' \ inflight : u.batch = t.batch => u.i = t.i + 1
    \/ /\ slot' = slot
       /\ retryCh' = retryCh
       /\ \E u \in inflight' \ inflight :
             /\ u.batch = t.batch /\ u.i = t.i /\ u.rpcok
             /\ u.phase \in {"inval", "send"}
             /\ u.kids = Resubmitted(t.batch[t.i])

\* the steps of a task: a failed RPC takes the first record of the batch to
\* recover as InternalFailure, acking nothing; a response entry acks its
\* record or takes it to recover; a send of recover hands the first record
\* left to the retry channel (the send fails once the retry worker is
\* gone), then goes on with the next one left, or with the next record of
\* the batch, which a failed RPC takes to recover as InternalFailure too
RecoveryStep ==
    \A t \in inflight :
        t \notin inflight' =>
            /\ t.phase = "rpc" =>
                  \/ /\ slot' = slot
                     /\ retryCh' = retryCh
                     /\ \E u \in inflight' \ inflight :
                           /\ u.batch = t.batch /\ u.i = 1 /\ ~u.rpcok
                           /\ u.phase = "send" /\ u.err = "InternalFailure"
                           /\ u.kids = Resubmitted(t.batch[1])
                  \/ EntryOutcome(t)
            /\ t.phase = "resp" => EntryOutcome(t)
            /\ t.phase = "send" =>
                  /\ \/ retryCh' = Append(retryCh, Head(t.kids))
                     \/ rw.pc = "exited" /\ retryCh' = retryCh
                  /\ IF Len(t.kids) > 1
                     THEN \E u \in inflight' \ inflight :
                             /\ u.batch = t.batch /\ u.i = t.i
                             /\ u.phase = "send" /\ u.kids = Tail(t.kids)
                     ELSE IF t.i = Len(t.batch)
                     THEN inflight' = inflight \ {t}
                     ELSE \E u \in inflight' \ inflight :
                             /\ u.batch = t.batch /\ u.i = t.i + 1
                             /\ IF t.rpcok
                                THEN u.phase = "resp" /\ u.kids = <<>>
                                ELSE /\ u.phase = "send"
                                     /\ u.err = "InternalFailure"
                                     /\ u.kids = Resubmitted(t.batch[t.i + 1])

\* C11: a failed record with children goes back child by child and the
\* aggregate is discarded, a failed record without children goes back
\* itself; a failed RPC takes every record of the batch to recovery as
\* InternalFailure; a record that succeeded is acked and not retried
C11_RecoveryRule == []RecoveryState /\ [][RecoveryStep]_vars

\* a request of two aggregates whose RPC failed: the child of the first is
\* on the retry path, the second is in recover as InternalFailure
C11_Witness ==
    \E t \in inflight :
        /\ ~t.rpcok
        /\ t.i = 2
        /\ t.phase = "send"
        /\ t.err = "InternalFailure"
        /\ t.batch[1].children # <<>>
        /\ t.batch[1].children[1] \in RetryPath
        /\ t.kids = t.batch[2].children


(***************************************************************************)
(* One response entry handled alone: the body of the loop of               *)
(* handle_response (sink.rs:153-162) on one entry and its record.          *)
(***************************************************************************)
EntryChild(a, pred) == Rec("k1", 1, pred, a, <<>>)

\* a raw record, and the aggregates of one and of two children, without a
\* prediction and predicted on either shard
EntryRecs ==
    UNION {{EntryChild(1, pred),
            AggregatorTake(<<EntryChild(1, pred)>>),
            AggregatorTake(<<EntryChild(1, pred), EntryChild(2, pred)>>)}
           : pred \in {<<>>} \cup {<<s, 1>> : s \in Shards}}

\* every PutRecordsResultEntry
EntryResponses ==
    [sequence_number : {None} \cup SeqNos,
     shard_id : {None, BadShard} \cup Shards,
     error_code : {"none", Throughput, "InternalFailure"}]

EntryInit ==
    /\ PipeInit
    /\ \E rec \in EntryRecs, response \in EntryResponses :
          unit = [op |-> "entry", rec |-> rec, response |-> response,
                  done |-> FALSE,
                  slot |-> [a \in AckIds |-> [st |-> "pending", res |-> NoRes, n |-> 0]],
                  retry |-> <<>>, err |-> "none", inval |-> 0]

\* match handle_record(response, &record): Ok(ack) => record.ack(Ok(ack)),
\* Err(e) => error_handler.recover(record, e)
UnitEntry ==
    /\ unit.op = "entry"
    /\ ~unit.done
    /\ LET h == HandleRecord(unit.response, unit.rec)
           P == Ack([slot |-> unit.slot, call |-> <<>>, log |-> <<>>], unit.rec, h.ack)
       IN unit' = IF h.ok
                  THEN [unit EXCEPT !.slot = P.slot, !.done = TRUE]
                  ELSE [unit EXCEPT !.retry = RecoverKids(unit.rec), !.err = h.err,
                                    !.inval = h.gen, !.done = TRUE]
    /\ UNCHANGED pipevars

EntryNext == UnitEntry

EntrySpec == EntryInit /\ [][EntryNext]_vars

\* C12: an entry with a sequence number and the shard id the record was
\* predicted on gives every child of the record (and the record's own
\* acker) a success Ack with that shard id and that sequence number, once,
\* and puts nothing on the retry path
C12_SuccessFanOut ==
    (/\ unit.op = "entry" /\ unit.done
     /\ unit.response.sequence_number # None
     /\ unit.rec.predicted_shard_id # <<>>
     /\ unit.response.shard_id = unit.rec.predicted_shard_id[1]) =>
        /\ \A a \in AckerSet(unit.rec) :
              unit.slot[a] = [st |-> "sent",
                              res |-> OkRes(unit.response.shard_id,
                                            unit.response.sequence_number),
                              n |-> 1]
        /\ \A i \in DOMAIN unit.rec.children :
              /\ unit.slot[unit.rec.children[i].acker].st = "sent"
              /\ unit.slot[unit.rec.children[i].acker].res.shard_id
                    = unit.response.shard_id
              /\ unit.slot[unit.rec.children[i].acker].res.sequence_number
                    = unit.response.sequence_number
        /\ unit.retry = <<>>
        /\ unit.inval = 0

\* an aggregate of two children predicted on shard 2, answered from shard 2
\* with sequence number 2: both reply slots hold that Ack
C12_Witness ==
    /\ unit.op = "entry" /\ unit.done
    /\ Len(unit.rec.children) = 2
    /\ unit.rec.predicted_shard_id = <<2, 1>>
    /\ unit.response.shard_id = 2
    /\ unit.response.sequence_number = 2
    /\ unit.slot[1].res = OkRes(2, 2)
    /\ unit.slot[2].res = OkRes(2, 2)


(***************************************************************************)
(* The way of a record from recover back to the submit stage.              *)
(***************************************************************************)
\* a delay enters the queue with the whole backoff, for the record at the
\* head of the retry channel, and only gets shorter tick by tick
DelayStep ==
    \A d \in delayQ' :
        \/ d \in delayQ
        \/ \E e \in delayQ : e.rec = d.rec /\ e.left > 0 /\ d.left = e.left - 1
        \/ /\ retryCh # <<>>
           /\ retryCh' = Tail(retryCh)
           /\ d.rec.acker = Head(retryCh).acker
           /\ d.left = RetryBackoff

\* the retry worker starts a send only with a record whose delay has run
\* out, which leaves the queue
ExpiryStep ==
    (rw'.pc = "sending" /\ rw.pc # "sending") =>
        \E d \in delayQ : d.left = 0 /\ d.rec = rw'.rec /\ delayQ' = delayQ \ {d}

\* what enters the submit channel is a fresh record of a submit call or
\* the record the retry worker is sending
RepushStep ==
    Len(submitCh') > Len(submitCh) =>
        LET new == submitCh'[Len(submitCh')]
        IN \/ new.tries = 0 /\ new.predicted_shard_id = <<>> /\ rw' = rw
           \/ rw.pc = "sending" /\ new = rw.rec /\ rw'.pc = "select"

\* the record the worker takes from the submit channel enters the
\* aggregator of the shard the topology gives for its key now, its
\* prediction replaced by that shard and the current generation
RepredictStep ==
    (submitCh # <<>> /\ submitCh' = Tail(submitCh) /\ ~rxDropped') =>
        LET rec == Head(submitCh)
            s == topo.map[rec.partition_key]
        IN /\ agg'[s] # <<>>
           /\ agg'[s][Len(agg'[s])] = [rec EXCEPT !.predicted_shard_id = <<s, topo.gen>>]

\* no record waits for a send of the retry worker, or is past the delay
\* queue, without having been through it; a delay is never longer than the
\* backoff
BackoffState ==
    /\ \A d \in delayQ : d.left \in 0..RetryBackoff /\ d.rec.tries > 0
    /\ rw.pc = "sending" => rw.rec.tries > 0
    /\ \A s \in Shards : \A i \in DOMAIN agg[s] : agg[s][i].predicted_shard_id[1] = s

\* C13: a record handed to recovery waits in the delay queue of the retry
\* worker for the whole retry_backoff before it is pushed into the submit
\* channel again; from there it is predicted again, against the current
\* topology, and aggregated again
C13_BackoffThenRepredict ==
    []BackoffState /\ [][DelayStep /\ ExpiryStep /\ RepushStep /\ RepredictStep]_vars

\* a retried record is in the aggregator of shard 2, predicted against the
\* refreshed generation
C13_Witness ==
    \E i \in DOMAIN agg[2] :
        /\ agg[2][i].tries > 0
        /\ agg[2][i].predicted_shard_id = <<2, 2>>


(***************************************************************************)
(* The pipeline in front of a stream service that throttles: an entry is   *)
(* a success on the shard of the key or, for records it sees for the first *)
(* time, a ProvisionedThroughputExceededException; a request the service   *)
(* refuses fails as a whole; the stream is not resharded.  What each       *)
(* record was answered, attempt by attempt, is kept in unit.hist.          *)
(***************************************************************************)
\* the answers remembered per record
HistCap == 3

\* the service throttles a record on its first attempt or never
ThrottleResponses(rec) ==
    {[sequence_number |-> q, shard_id |-> actual[rec.partition_key], error_code |-> "none"]
        : q \in SeqNos}
    \cup (IF \A r \in LeafIds(<<rec>>) : unit.hist[r] = <<>>
          THEN {[sequence_number |-> None, shard_id |-> None, error_code |-> Throughput]}
          ELSE {})

\* unit with answer o noted for every raw record below recs
Logged(recs, o) ==
    [unit EXCEPT !.hist = [r \in DOMAIN @ |->
                             IF r \in LeafIds(recs) /\ Len(@[r]) < HistCap
                             THEN Append(@[r], o) ELSE @[r]]]

\* the loop of handle_response on the entry the service gave
ServiceEntry(t, response) ==
    /\ HandleWith(t, response)
    /\ unit' = Logged(<<t.batch[t.i]>>,
                      IF response.error_code = Throughput THEN "T" ELSE "S")

ThrottleRpcOk(t) ==
    /\ t \in inflight
    /\ t.phase = "rpc"
    /\ ServiceAccepts(t.batch)
    /\ \E response \in ThrottleResponses(t.batch[t.i]) : ServiceEntry(t, response)
    /\ UNCHANGED <<submitCh, rxDropped, agg, batch, retryCh, delayQ, rw, wpc,
                   shutdown, hpc, topo, actual, reshards>>

ThrottleHandleEntry(t) ==
    /\ t \in inflight
    /\ t.phase = "resp"
    /\ \E response \in ThrottleResponses(t.batch[t.i]) : ServiceEntry(t, response)
    /\ UNCHANGED <<submitCh, rxDropped, agg, batch, retryCh, delayQ, rw, wpc,
                   shutdown, hpc, topo, actual, reshards>>

ThrottleRpcErr(t) ==
    /\ t \in inflight
    /\ t.phase = "rpc"
    /\ inflight' = (inflight \ {t})
                   \cup {EnterRecover([t EXCEPT !.rpcok = FALSE], 1, "InternalFailure", 0)}
    /\ unit' = Logged(t.batch, "E")
    /\ UNCHANGED <<slot, call, submitCh, rxDropped, agg, batch, retryCh, delayQ,
                   rw, wpc, shutdown, hpc, topo, actual, reshards>>

ThrottleInit ==
    /\ PipeInit
    /\ unit = [op |-> "service", hist |-> [r \in Recs |-> <<>>]]

ThrottleNext ==
    \/ \E c \in DOMAIN call : SubmitSend(c)
    \/ \E c \in DOMAIN call : CollectPoll(c)
    \/ WorkerRecv
    \/ \E s \in Shards : AggTimer(s)
    \/ BatchTimer
    \/ WorkerEnd
    \/ WorkerClose
    \/ \E t \in inflight : ThrottleRpcOk(t)
    \/ \E t \in inflight : ThrottleRpcErr(t)
    \/ \E t \in inflight : ThrottleHandleEntry(t)
    \/ \E t \in inflight : RecoverSend(t)
    \/ RetryRecv
    \/ Tick
    \/ RetryExpired
    \/ RetrySend
    \/ RetryShutdown
    \/ RetryClosed
    \/ ShutdownCall
    \/ ShutdownReturn

ThrottleSpec == ThrottleInit /\ [][ThrottleNext]_vars

\* C14: a record whose first attempt was answered with
\* ProvisionedThroughputExceededException and whose second with a success
\* is sent twice and no more, and its submitter gets one result, a
\* success: nothing reaches the reply slot after the first answer, one
\* success after the second
C14_OneRetryOneAck ==
    unit.op = "service" =>
        \A r \in DOMAIN slot :
            /\ unit.hist[r] = <<"T">> => slot[r].st \in {"pending", "dropped"}
            /\ (Len(unit.hist[r]) >= 2 /\ unit.hist[r][1] = "T" /\ unit.hist[r][2] = "S") =>
                  /\ Len(unit.hist[r]) = 2
                  /\ slot[r].st = "sent" /\ slot[r].res.ok /\ slot[r].n = 1
                  /\ call[CallOf(r)].futs[IdxOf(r)].st = "done" =>
                        \E j \in DOMAIN call[CallOf(r)].out :
                            call[CallOf(r)].out[j] = slot[r].res

\* both records of a call were throttled and then accepted, and the call
\* has returned two successes
C14_Witness ==
    /\ unit.op = "service"
    /\ \A r \in DOMAIN slot : unit.hist[r] = <<"T", "S">>
    /\ call[1].pc = "done"
    /\ \A j \in DOMAIN call[1].out : call[1].out[j].ok


(***************************************************************************)
(* The pipeline, never shut down, in front of a stream whose shard 1 is    *)
(* replaced by shard 2 once, and a service that accepts every record on    *)
(* the shard its key is on.                                                *)
(***************************************************************************)
\* every key on shard 2
OnShardTwo == [k \in Keys |-> 2]

\* shard 1 of the stream is closed, shard 2 takes its keys
StreamSplit ==
    /\ actual = OneShard
    /\ actual' = OnShardTwo
    /\ reshards' = reshards + 1
    /\ UNCHANGED <<slot, call, submitCh, rxDropped, agg, batch, inflight, retryCh,
                   delayQ, rw, wpc, shutdown, hpc, topo, unit>>

\* the entry of a record the service has stored
Stored(rec) ==
    {[sequence_number |-> q, shard_id |-> actual[rec.partition_key], error_code |-> "none"]
        : q \in SeqNos}

SplitRpcOk(t) ==
    /\ t \in inflight
    /\ t.phase = "rpc"
    /\ \E response \in Stored(t.batch[t.i]) : HandleWith(t, response)
    /\ UNCHANGED <<submitCh, rxDropped, agg, batch, retryCh, delayQ, rw, wpc,
                   shutdown, hpc, topo, actual, reshards, unit>>

SplitHandleEntry(t) ==
    /\ t \in inflight
    /\ t.phase = "resp"
    /\ \E response \in Stored(t.batch[t.i]) : HandleWith(t, response)
    /\ UNCHANGED <<submitCh, rxDropped, agg, batch, retryCh, delayQ, rw, wpc,
                   shutdown, hpc, topo, actual, reshards, unit>>

SplitNext ==
    \/ \E c \in DOMAIN call : SubmitSend(c)
    \/ \E c \in DOMAIN call : CollectPoll(c)
    \/ WorkerRecv
    \/ \E s \in Shards : AggTimer(s)
    \/ BatchTimer
    \/ \E t \in inflight : SplitRpcOk(t)
    \/ \E t \in inflight : SplitHandleEntry(t)
    \/ \E t \in inflight : RecoverInvalidate(t)
    \/ \E t \in inflight : RecoverSend(t)
    \/ RetryRecv
    \/ Tick
    \/ RetryExpired
    \/ RetrySend
    \/ StreamSplit
    \/ TopoRefresh

\* the runtime does not stop while something can run, and the topology
\* worker, which tokio::join! polls along with the pipeline and the retry
\* worker (lib.rs:191), gets to serve a refresh that stays scheduled
SplitFair == WF_vars(SplitNext) /\ WF_vars(TopoRefresh)

SplitSpec == Init /\ [][SplitNext]_vars /\ SplitFair

\* record r was predicted on shard 1 and answered from shard 2
MispredictedOn1(r) ==
    \E t \in inflight :
        /\ t.err = Mispredicted
        /\ t.phase = "inval"
        /\ r \in LeafIds(<<t.batch[t.i]>>)
        /\ t.batch[t.i].predicted_shard_id[1] = 1
        /\ actual[t.batch[t.i].partition_key] = 2

\* the topology has been refreshed and the submitter of r has its result,
\* a success on shard 2
ServedOn2(r) ==
    /\ topo.gen > 1
    /\ slot[r].st = "sent" /\ slot[r].res.ok /\ slot[r].res.shard_id = 2
    /\ call[CallOf(r)].futs[IdxOf(r)].st = "done"
    /\ \E j \in DOMAIN call[CallOf(r)].out : call[CallOf(r)].out[j] = slot[r].res

\* a success on shard 2 is given to a record predicted on shard 2 against
\* a generation later than the first
AckedAgainstRefreshed ==
    \A t \in inflight :
        \A r \in LeafIds(<<t.batch[t.i]>>) :
            (t.phase \in {"rpc", "resp"} /\ slot[r].st = "pending"
             /\ slot'[r].st = "sent" /\ slot'[r].res.shard_id = 2) =>
                /\ t.batch[t.i].predicted_shard_id[1] = 2
                /\ t.batch[t.i].predicted_shard_id[2] > 1
                /\ t.batch[t.i].predicted_shard_id[2] <= topo.gen

\* C15: a record predicted on shard 1 and answered from shard 2 is, with
\* no shutdown and a fair runtime, eventually acked with a success on shard
\* 2: the topology is refreshed, and the attempt that succeeds is predicted
\* against a refreshed generation
C15_MispredictionHeals ==
    /\ [][AckedAgainstRefreshed]_vars
    /\ \A r \in Recs : MispredictedOn1(r) ~> ServedOn2(r)

\* a record that went through the retry path holds a success on shard 2,
\* the topology being at its second generation
C15_Witness ==
    /\ topo.gen = 2
    /\ \E r \in DOMAIN slot :
          /\ ServedOn2(r)
          /\ call[CallOf(r)].pc = "done"
    /\ reshards = 1


(***************************************************************************)
(* RecordBatcher checked alone (producer.rs:67-120): any sequence of       *)
(* try_push and take on a batcher of any small budget.                     *)
(***************************************************************************)
\* width of usize in bits
UsizeBits == 4
\* the largest budget of bytes and of records tried, the longest record
\* offered and the number of records offered
BatcherBytes == 4
BatcherRecords == 3
MaxItemLen == 2
MaxPush == 4

UsizeMax == 2 ^ UsizeBits - 1

\* usize::saturating_add
SaturatingAdd(a, b) == IF a + b > UsizeMax THEN UsizeMax ELSE a + b

\* RecordBatcher::new
BatcherNew(max_bytes, max_records) ==
    [buffer |-> <<>>, cur_bytes |-> 0, max_bytes |-> max_bytes,
     max_records |-> max_records]

\* a try_push that would look at the byte budget only
TryPushBytesOnly(b, item) ==
    LET new_bytes == SaturatingAdd(b.cur_bytes, item.len)
    IN IF new_bytes > b.max_bytes
       THEN [b |-> b, back |-> <<item>>]
       ELSE [b |-> [b EXCEPT !.cur_bytes = new_bytes, !.buffer = Append(@, item)],
             back |-> <<>>]

\* try_push: the batcher afterwards, and the item when it is handed back
TryPush(b, item) ==
    LET new_bytes == SaturatingAdd(b.cur_bytes, item.len)
    IN IF Len(b.buffer) >= b.max_records \/ new_bytes > b.max_bytes
       THEN [b |-> b, back |-> <<item>>]
       ELSE [b |-> [b EXCEPT !.cur_bytes = new_bytes, !.buffer = Append(@, item)],
             back |-> <<>>]

\* take: the batcher afterwards, and the output if there is one
Take(b) ==
    IF b.buffer = <<>> THEN [b |-> b, out |-> <<>>]
    ELSE [b |-> [b EXCEPT !.cur_bytes = 0, !.buffer = <<>>], out |-> <<b.buffer>>]

\* accepted lists the records try_push took, outputs what take returned
BatcherInit ==
    /\ PipeInit
    /\ \E max_bytes \in 0..BatcherBytes, max_records \in 0..BatcherRecords :
          unit = [op |-> "batcher", b |-> BatcherNew(max_bytes, max_records),
                  last |-> "new", pushes |-> 0, accepted |-> <<>>, outputs |-> <<>>]

UnitTryPush ==
    /\ unit.op = "batcher"
    /\ unit.pushes < MaxPush
    /\ \E len \in 0..MaxItemLen :
          LET item == Rec("k1", len, <<>>, unit.pushes + 1, <<>>)
              r == TryPush(unit.b, item)
          IN unit' = [unit EXCEPT !.b = r.b, !.last = "try_push",
                                  !.pushes = @ + 1,
                                  !.accepted = IF r.back = <<>> THEN Append(@, item) ELSE @]
    /\ UNCHANGED pipevars

UnitTake ==
    /\ unit.op = "batcher"
    /\ unit.last # "take"
    /\ LET r == Take(unit.b)
       IN unit' = [unit EXCEPT !.b = r.b, !.last = "take", !.outputs = @ \o r.out]
    /\ UNCHANGED pipevars

BatcherNext == UnitTryPush \/ UnitTake

BatcherSpec == BatcherInit /\ [][BatcherNext]_vars

\* C16: every output of take holds at most max_records records of at most
\* max_bytes bytes in all, the outputs followed by the buffer are the
\* accepted records in the order of their acceptance, each once, and right
\* after take the buffer is empty and the byte counter zero
C16_BatcherBounds ==
    unit.op = "batcher" =>
        /\ \A i \in DOMAIN unit.outputs :
              /\ Len(unit.outputs[i]) <= unit.b.max_records
              /\ SumLen(unit.outputs[i]) <= unit.b.max_bytes
              /\ unit.outputs[i] # <<>>
        /\ Flatten(unit.outputs) \o unit.b.buffer = unit.accepted
        /\ \A i, j \in DOMAIN unit.accepted :
              unit.accepted[i].acker = unit.accepted[j].acker => i = j
        /\ unit.b.cur_bytes = SumLen(unit.b.buffer)
        /\ unit.last = "take" => (unit.b.buffer = <<>> /\ unit.b.cur_bytes = 0)

\* two outputs, the first full by its records, and a record handed back
C16_Witness ==
    /\ unit.op = "batcher"
    /\ unit.last = "take"
    /\ Len(unit.outputs) = 2
    /\ Len(unit.outputs[1]) = unit.b.max_records
    /\ SumLen(unit.outputs[2]) = unit.b.max_bytes
    /\ Len(unit.accepted) < unit.pushes


(***************************************************************************)
(* The batch budget of the pipeline (lib.rs:113-121, 184-187).             *)
(***************************************************************************)
\* C17: no batch handed to the sink, hence no PutRecords request, holds
\* more than the configured max_records entries or more than the
\* configured max_bytes bytes of record data
C17_BatchWithinBothBounds ==
    \A t \in inflight :
        /\ Len(t.batch) <= BatchMaxRecords
        /\ SumLen(t.batch) <= BatchMaxBytes


(***************************************************************************)
(* RecordLimiter checked alone (producer.rs:122-147) on two token buckets. *)
(***************************************************************************)
\* records per second and bytes per second of the limiter, and the seconds
\* the clock runs
LimiterRps == 2
LimiterBps == 2
MaxNow == 2

\* TokenBucket::per_second(rate) holding some credit: the capacity is the
\* rate
Bucket(rate, credit) == [credit |-> credit, last |-> 0, rate |-> rate, capacity |-> rate]

\* a refill that would not stop at the capacity
RefillUnclamped(bk, now) ==
    [bk EXCEPT !.credit = bk.credit + (now - bk.last) * bk.rate, !.last = now]

\* the refill at time now: (now - last) * rate more credit, at most capacity
Refill(bk, now) ==
    LET filled == bk.credit + (now - bk.last) * bk.rate
    IN [bk EXCEPT !.credit = IF filled > bk.capacity THEN bk.capacity ELSE filled,
                  !.last = now]

\* TokenBucket::try_take(n)
BucketTryTake(bk, now, n) ==
    LET f == Refill(bk, now)
    IN IF f.credit >= n THEN [bk |-> [f EXCEPT !.credit = @ - n], ok |-> TRUE]
       ELSE [bk |-> f, ok |-> FALSE]

\* a limiter that would ask the records bucket only
LimiterTryTakeRecordsOnly(lim, now, item) ==
    LET r == BucketTryTake(lim.records, now, 1)
    IN [lim |-> [lim EXCEPT !.records = r.bk], ok |-> r.ok]

\* RecordLimiter::try_take(item): self.records.try_take(&1)?, then
\* self.bytes.try_take(&len)
LimiterTryTake(lim, now, item) ==
    LET r == BucketTryTake(lim.records, now, 1)
        b == BucketTryTake(lim.bytes, now, item.len)
    IN IF ~r.ok THEN [lim |-> [lim EXCEPT !.records = r.bk], ok |-> FALSE]
       ELSE [lim |-> [records |-> r.bk, bytes |-> b.bk], ok |-> b.ok]

\* RecordLimiter::new, some of the credit already used
LimiterInit ==
    /\ PipeInit
    /\ \E rc \in 0..LimiterRps, bc \in 0..LimiterBps :
          unit = [op |-> "limiter",
                  lim |-> [records |-> Bucket(LimiterRps, rc),
                           bytes |-> Bucket(LimiterBps, bc)],
                  before |-> [records |-> Bucket(LimiterRps, rc),
                              bytes |-> Bucket(LimiterBps, bc)],
                  now |-> 0, last |-> "new", len |-> 0, ok |-> FALSE]

UnitLimiterTake ==
    /\ unit.op = "limiter"
    /\ \E len \in 1..MaxItemLen :
          LET r == LimiterTryTake(unit.lim, unit.now, Rec("k1", len, <<>>, None, <<>>))
          IN unit' = [unit EXCEPT !.lim = r.lim, !.before = unit.lim,
                                  !.last = "try_take", !.len = len, !.ok = r.ok]
    /\ UNCHANGED pipevars

\* a second passes
UnitLimiterTick ==
    /\ unit.op = "limiter"
    /\ unit.now < MaxNow
    /\ unit' = [unit EXCEPT !.now = @ + 1, !.last = "tick"]
    /\ UNCHANGED pipevars

LimiterNext == UnitLimiterTake \/ UnitLimiterTick

LimiterSpec == LimiterInit /\ [][LimiterNext]_vars

\* the credit a bucket shows at the time of the harness
CreditNow(bk) == Refill(bk, unit.now).credit

\* C18: try_take(item) takes one token of the records bucket and len
\* tokens of the bytes bucket, or fails and leaves the credit of both
\* buckets as it was
C18_LimiterBothOrNeither ==
    (unit.op = "limiter" /\ unit.last = "try_take") =>
        IF unit.ok
        THEN /\ CreditNow(unit.lim.records) = CreditNow(unit.before.records) - 1
             /\ CreditNow(unit.lim.bytes) = CreditNow(unit.before.bytes) - unit.len
        ELSE /\ CreditNow(unit.lim.records) = CreditNow(unit.before.records)
             /\ CreditNow(unit.lim.bytes) = CreditNow(unit.before.bytes)


(***************************************************************************)
(* Backpressure at the sink (sink.rs:166-228).                             *)
(***************************************************************************)
\* C19: the sink never has more than a fixed number of PutRecords requests
\* in flight: it takes no batch while it is at that number
C19_InFlightBounded == Cardinality(inflight) <= MaxInFlight


(***************************************************************************)
(* The shutdown latch checked alone (shutdown.rs): a Sender and Receivers  *)
(* around tokio's watch channel of a bool.  The watch channel keeps one    *)
(* value and a version that every broadcast advances; a receiver           *)
(* remembers the version it has seen, poll_next yields the value when the  *)
(* version is new to the receiver, None when the sender is gone, and is    *)
(* pending otherwise.                                                      *)
(***************************************************************************)
\* number of receivers there can be, and of calls of shutdown()
NRx == 3
MaxShutdownCalls == 2

RxIds == 1..NRx

\* a receiver that does not exist (not yet cloned, or dropped)
NoRx == [alive |-> FALSE, ver |-> 0, poll |-> "none", at |-> FALSE]

\* a Future::poll of Receiver that would rely on poll_next alone
ReceiverPollNextOnly(w, rx) ==
    IF rx.ver # w.version /\ w.value
    THEN [rx EXCEPT !.ver = w.version, !.poll = "ready", !.at = w.called]
    ELSE [rx EXCEPT !.ver = w.version, !.at = w.called,
                    !.poll = IF w.closed THEN "ready" ELSE "pending"]

\* Future::poll of Receiver on the watch channel w: ready at once when the
\* value borrowed is true; else poll_next, which makes the receiver see the
\* current version, then the loop again, ready on None, pending otherwise
ReceiverPoll(w, rx) ==
    IF w.value THEN [rx EXCEPT !.poll = "ready", !.at = w.called]
    ELSE [rx EXCEPT !.ver = w.version, !.at = w.called,
                    !.poll = IF w.closed THEN "ready" ELSE "pending"]

\* Receiver::terminating
Terminating(w) == w.value

\* shutdown::channel(): watch::channel(false), one receiver, which has not
\* seen the first version
LatchInit ==
    /\ PipeInit
    /\ unit = [op |-> "latch",
               w |-> [value |-> FALSE, version |-> 1, closed |-> FALSE,
                      called |-> FALSE, calls |-> 0],
               rx |-> [i \in RxIds |-> IF i = 1 THEN [NoRx EXCEPT !.alive = TRUE]
                                       ELSE NoRx]]

\* Sender::shutdown: let _ = broadcast(true), which fails without a
\* receiver left and else stores the value and advances the version
UnitShutdown ==
    /\ unit.op = "latch"
    /\ ~unit.w.closed
    /\ unit.w.calls < MaxShutdownCalls
    /\ unit' = IF \E i \in RxIds : unit.rx[i].alive
               THEN [unit EXCEPT !.w.value = TRUE, !.w.version = @ + 1,
                                 !.w.called = TRUE, !.w.calls = @ + 1]
               ELSE [unit EXCEPT !.w.calls = @ + 1]
    /\ UNCHANGED pipevars

\* the Sender is dropped
UnitSenderDrop ==
    /\ unit.op = "latch"
    /\ ~unit.w.closed
    /\ unit' = [unit EXCEPT !.w.closed = TRUE]
    /\ UNCHANGED pipevars

\* Receiver::clone: the clone has seen what the original has
UnitClone ==
    /\ unit.op = "latch"
    /\ \E i, j \in RxIds :
          /\ unit.rx[i].alive
          /\ unit.rx[j] = NoRx
          /\ unit' = [unit EXCEPT !.rx[j] = [NoRx EXCEPT !.alive = TRUE,
                                                        !.ver = unit.rx[i].ver]]
    /\ UNCHANGED pipevars

\* a receiver is polled as a future
UnitPoll ==
    /\ unit.op = "latch"
    /\ \E i \in RxIds :
          /\ unit.rx[i].alive
          /\ unit.rx[i].poll # "ready"
          /\ unit' = [unit EXCEPT !.rx[i] = ReceiverPoll(unit.w, unit.rx[i])]
    /\ UNCHANGED pipevars

\* a receiver is dropped
UnitRxDrop ==
    /\ unit.op = "latch"
    /\ \E i \in RxIds :
          /\ unit.rx[i].alive
          /\ unit' = [unit EXCEPT !.rx[i] = [NoRx EXCEPT !.poll = "dropped"]]
    /\ UNCHANGED pipevars

LatchNext ==
    \/ UnitShutdown
    \/ UnitSenderDrop
    \/ UnitClone
    \/ UnitPoll
    \/ UnitRxDrop

LatchSpec == LatchInit /\ [][LatchNext]_vars

\* after shutdown() every receiver reads terminating() as true and a
\* receiver polled since then has completed; before the call, with the
\* Sender alive, terminating() is false and no receiver has completed
LatchState ==
    unit.op = "latch" =>
        \A i \in RxIds :
            unit.rx[i].alive =>
                /\ unit.w.called => Terminating(unit.w)
                /\ (unit.rx[i].poll # "none" /\ unit.rx[i].at) => unit.rx[i].poll = "ready"
                /\ (~unit.w.called /\ ~unit.w.closed) =>
                      (~Terminating(unit.w) /\ unit.rx[i].poll # "ready")

\* the latch does not open again
LatchStays == (unit.op = "latch" /\ Terminating(unit.w)) => Terminating(unit.w)'

\* C20: once shutdown() is called, terminating() is true and the future is
\* ready for every receiver, clones made after the call included, for
\* good; before the call, while the Sender lives, terminating() is false
\* and no receiver completes
C20_ShutdownLatch == []LatchState /\ [][LatchStays]_vars

\* two receivers, one a clone, that have seen no version but the first are
\* ready, the clone polled after shutdown() was called twice
C20_Witness ==
    /\ unit.op = "latch"
    /\ unit.w.calls = 2
    /\ unit.rx[1].alive /\ unit.rx[1].poll = "ready" /\ unit.rx[1].ver = 1
    /\ unit.rx[2].alive /\ unit.rx[2].poll = "ready" /\ unit.rx[2].ver = 1
    /\ unit.rx[2].at


\* ---------------------------------------------------------------------
\* The topology service alone: callers look a key up, keep the generation
\* they saw and invalidate it later; the worker serialises invalidations
\* and refreshes; list_shards may fail; the stream may be resharded.
NInval == 3
MaxGen == 3
MaxFail == 1
Callers == 1 .. NInval

TopoInit ==
    /\ PipeInit
    /\ unit = [op |-> "topo",
               tp |-> [gen |-> 1, map |-> OneShard, pending |-> FALSE],
               placement |-> OneShard,
               caller |-> [c \in Callers |-> [pc |-> "idle", key |-> "k1", g |-> 0, shard |-> 0, stale |-> FALSE]],
               snap |-> [g \in 1 .. MaxGen + 1 |-> IF g = 1 THEN OneShard ELSE [k \in Keys |-> 0]],
               named |-> {},
               refreshes |-> 0,
               fails |-> 0]

\* lookup_shard(hash) -> (ShardId, Generation) against the current snapshot
LookupShard(tp, key) == [shard |-> tp.map[key], g |-> tp.gen]

UnitLookup(c, key) ==
    /\ unit.op = "topo"
    /\ unit.caller[c].pc \in {"idle", "holding"}
    /\ LET r == LookupShard(unit.tp, key)
       IN  unit' = [unit EXCEPT !.caller[c] = [pc |-> "holding", key |-> key, g |-> r.g, shard |-> r.shard, stale |-> FALSE]]
    /\ UNCHANGED pipevars

UnitInvalidate(c) ==
    /\ unit.op = "topo"
    /\ unit.caller[c].pc = "holding"
    /\ LET g == unit.caller[c].g
       IN  unit' = [unit EXCEPT !.tp = Invalidate(unit.tp, g),
                                !.caller[c].pc = "done",
                                !.caller[c].stale = (g < unit.tp.gen),
                                !.named = IF g = unit.tp.gen THEN @ \cup {g} ELSE @]
    /\ UNCHANGED pipevars

UnitRefresh ==
    /\ unit.op = "topo"
    /\ unit.tp.pending
    /\ unit.tp.gen < MaxGen
    /\ LET tp2 == Publish(unit.tp, unit.placement)
       IN  unit' = [unit EXCEPT !.tp = tp2,
                                !.snap[tp2.gen] = tp2.map,
                                !.refreshes = @ + 1,
                                !.fails = 0]
    /\ UNCHANGED pipevars

\* list_shards fails: the refresh stays pending and is retried after a backoff
UnitRefreshFail ==
    /\ unit.op = "topo"
    /\ unit.tp.pending
    /\ unit.fails < MaxFail
    /\ unit' = [unit EXCEPT !.fails = @ + 1]
    /\ UNCHANGED pipevars

UnitReshard ==
    /\ unit.op = "topo"
    /\ \E p \in {OneShard, TwoShards, OnShardTwo} :
          /\ p # unit.placement
          /\ unit' = [unit EXCEPT !.placement = p]
    /\ UNCHANGED pipevars

TopoNext ==
    \/ \E c \in Callers, key \in Keys : UnitLookup(c, key)
    \/ \E c \in Callers : UnitInvalidate(c)
    \/ UnitRefresh
    \/ UnitRefreshFail
    \/ UnitReshard

TopoSpec == TopoInit /\ [][TopoNext]_vars


\* an invalidation naming a generation older than the current one leaves
\* the topology as it was
StaleInvalidateIgnored ==
    \A c \in Callers :
        (/\ unit.caller[c].pc = "holding"
         /\ unit'.caller[c].pc = "done"
         /\ unit.caller[c].g < unit.tp.gen)
        => unit'.tp = unit.tp /\ unit'.refreshes = unit.refreshes

\* C21: however many invalidate(g) calls name the current generation g, at
\* most one refresh is made for g (so the refreshes made never outnumber
\* the generations that were invalidated while current, and a generation
\* is the current one again only after it was replaced once), and an
\* invalidate(g') naming an older generation causes no refresh.
C21_InvalidationsCoalesce ==
    /\ [](unit.op = "topo" =>
            /\ unit.refreshes <= Cardinality(unit.named)
            /\ unit.refreshes = unit.tp.gen - 1
            /\ unit.tp.pending => unit.tp.gen \in unit.named)
    /\ [][unit.op = "topo" => StaleInvalidateIgnored]_vars

C21_Witness ==
    /\ unit.op = "topo"
    /\ \A c \in Callers : unit.caller[c].pc = "done" /\ unit.caller[c].g = 1
    /\ \E c, d \in Callers : unit.caller[c].stale /\ ~unit.caller[d].stale /\ c # d
    /\ Cardinality({c \in Callers : ~unit.caller[c].stale}) >= 2
    /\ unit.refreshes = 1
    /\ ~unit.tp.pending

\* what lookup_shard gave a caller is the snapshot published for the
\* generation it gave
LookupFromSnapshot ==
    \A c \in Callers :
        unit.caller[c].pc # "idle" =>
            /\ unit.caller[c].g \in 1 .. unit.tp.gen
            /\ unit.caller[c].shard = unit.snap[unit.caller[c].g][unit.caller[c].key]

\* C22: the generation lookup_shard gives never decreases and grows by one
\* with each published refresh; the snapshot published for a generation is
\* never modified; while a refresh is pending or failing, lookups keep
\* giving the previous snapshot with its generation.
C22_GenerationsImmutable ==
    /\ [](unit.op = "topo" =>
            /\ unit.tp.map = unit.snap[unit.tp.gen]
            /\ LookupFromSnapshot)
    /\ [][unit.op = "topo" =>
            /\ unit'.tp.gen \in {unit.tp.gen, unit.tp.gen + 1}
            /\ unit'.tp.gen = unit.tp.gen + 1 <=> unit'.refreshes = unit.refreshes + 1
            /\ \A g \in 1 .. unit.tp.gen : unit'.snap[g] = unit.snap[g]
            /\ unit'.tp.gen = unit.tp.gen => unit'.tp.map = unit.tp.map
            /\ \A k \in Keys :
                  unit'.tp.gen = unit.tp.gen => LookupShard(unit'.tp, k) = LookupShard(unit.tp, k)]_vars

\* a lookup made while a refresh was failing, after the stream was
\* resharded, still gave the snapshot of generation 1; a later one gave
\* the snapshot of generation 2
C22_Witness ==
    /\ unit.op = "topo"
    /\ unit.tp.gen = 2
    /\ unit.snap[2] # unit.snap[1]
    /\ \E c, d \in Callers :
          /\ unit.caller[c].pc = "holding" /\ unit.caller[c].g = 1
          /\ unit.caller[c].shard = 1 /\ unit.caller[c].key = "k2"
          /\ unit.caller[d].pc = "holding" /\ unit.caller[d].g = 2
          /\ unit.caller[d].shard = 2 /\ unit.caller[d].key = "k2"


(***************************************************************************)
(* One token bucket from zero credit (TokenBucket::per_second at           *)
(* producer.rs:127-134; any capacity, the default being the rate).         *)
(***************************************************************************)
MaxRate == 2
MaxCapacity == 3
MaxTake == 2

Min(a, b) == IF a < b THEN a ELSE b

BucketInit ==
    /\ PipeInit
    /\ \E r \in 1 .. MaxRate, c \in 1 .. MaxCapacity :
          unit = [op |-> "bucket",
                  bk |-> [Bucket(r, 0) EXCEPT !.capacity = c],
                  now |-> 0, last |-> "new", ok |-> FALSE, before |-> 0,
                  ones |-> 0, tokens |-> 0, burst |-> 0]

\* try_take(n) at the time of the clock; ones counts the successful
\* try_take(1) calls, tokens the tokens handed out, burst those handed out
\* since the clock last moved
UnitBucketTake ==
    /\ unit.op = "bucket"
    /\ \E n \in 1 .. MaxTake :
          LET r == BucketTryTake(unit.bk, unit.now, n)
          IN unit' = [unit EXCEPT !.bk = r.bk, !.last = "try_take", !.ok = r.ok,
                                  !.before = CreditNow(unit.bk),
                                  !.ones = IF r.ok /\ n = 1 THEN @ + 1 ELSE @,
                                  !.tokens = IF r.ok THEN @ + n ELSE @,
                                  !.burst = IF r.ok THEN @ + n ELSE @]
    /\ UNCHANGED pipevars

UnitBucketTick ==
    /\ unit.op = "bucket"
    /\ unit.now < MaxNow
    /\ unit' = [unit EXCEPT !.now = @ + 1, !.last = "tick", !.burst = 0]
    /\ UNCHANGED pipevars

BucketNext == UnitBucketTake \/ UnitBucketTick

BucketSpec == BucketInit /\ [][BucketNext]_vars

\* the credit never exceeds the capacity and a failed try_take leaves it
\* as it was
CreditKept ==
    /\ CreditNow(unit.bk) <= unit.bk.capacity
    /\ (unit.last = "try_take" /\ ~unit.ok) => CreditNow(unit.bk) = unit.before

\* C23: from zero credit, the successful try_take(1) calls within a
\* duration T number at most floor(min(c, r*T)); the credit never exceeds c
\* and a failed try_take leaves the credit unchanged.
C23_TakesWithinMinOfCapacity ==
    unit.op = "bucket" =>
        /\ unit.ones <= Min(unit.bk.capacity, unit.bk.rate * unit.now)
        /\ CreditKept

\* C23 as the bucket behaves: from zero credit, the tokens handed out within
\* a duration T are at most r*T, those handed out at one instant are at
\* most min(c, r*T); the credit never exceeds c and a failed try_take leaves
\* the credit unchanged.
C23_TakesWithinRefill ==
    unit.op = "bucket" =>
        /\ unit.ones <= unit.tokens
        /\ unit.tokens <= unit.bk.rate * unit.now
        /\ unit.burst <= Min(unit.bk.capacity, unit.bk.rate * unit.now)
        /\ CreditKept

\* capacity 1, rate 1: one token taken in each of two seconds, then a
\* failed try_take
C23_Witness ==
    /\ unit.op = "bucket"
    /\ unit.bk.capacity = 1 /\ unit.bk.rate = 1
    /\ unit.now = 2
    /\ unit.ones = 2
    /\ unit.last = "try_take" /\ ~unit.ok


(***************************************************************************)
(* BatchedStream over a RecordBatcher (lib.rs:184-187): a source of        *)
(* records, the reducer, the wait measured from the first record of the    *)
(* batch. st is the stream: the reducer b, the deadline of the timer (None *)
(* when it is not armed), the outputs and whether the source has ended.    *)
(***************************************************************************)
MaxWait == 2
BatchClock == 3

\* st emits what the reducer holds
Emit(st) ==
    LET t == Take(st.b)
    IN [st EXCEPT !.b = t.b, !.outputs = @ \o t.out, !.timer = None]

\* the source yields an item at time now: a rejected item emits the batch
\* and is offered again; the first item of a batch arms the timer
SourceItem(st, item, now) ==
    LET s1 == IF TryPush(st.b, item).back = <<>> THEN st ELSE Emit(st)
    IN [s1 EXCEPT !.b = TryPush(s1.b, item).b,
                  !.timer = IF s1.b.buffer = <<>> THEN now + MaxWait ELSE @]

\* a stream that would end without emitting the partial batch
SourceEndNoFlush(st) == [st EXCEPT !.ended = TRUE, !.timer = None]

\* the source ends (or the shutdown signal cuts it): the partial batch is
\* emitted, then the stream ends
SourceEnd(st) ==
    [(IF st.b.buffer = <<>> THEN st ELSE Emit(st)) EXCEPT !.ended = TRUE, !.timer = None]

BatchedInit ==
    /\ PipeInit
    /\ unit = [op |-> "batched",
               st |-> [b |-> BatcherNew(BatcherBytes, BatcherRecords),
                       timer |-> None, outputs |-> <<>>, ended |-> FALSE],
               now |-> 0, pulled |-> <<>>, why |-> <<>>]

\* why lists what made the stream emit each output
Because(st2, cause) ==
    IF Len(st2.outputs) > Len(unit.st.outputs) THEN Append(unit.why, cause) ELSE unit.why

\* items that fit an empty reducer (a larger one stalls the stream)
UnitSourceItem ==
    /\ unit.op = "batched"
    /\ ~unit.st.ended
    /\ Len(unit.pulled) < MaxPush
    /\ \E len \in 1 .. MaxItemLen :
          LET item == Rec("k1", len, <<>>, Len(unit.pulled) + 1, <<>>)
          IN /\ TryPush(BatcherNew(BatcherBytes, BatcherRecords), item).back = <<>>
             /\ unit' = [unit EXCEPT !.st = SourceItem(unit.st, item, unit.now),
                                     !.pulled = Append(@, item),
                                     !.why = Because(SourceItem(unit.st, item, unit.now), "reject")]
    /\ UNCHANGED pipevars

\* the wait has elapsed
UnitBatchTimer ==
    /\ unit.op = "batched"
    /\ unit.st.timer # None
    /\ unit.now = unit.st.timer
    /\ unit' = [unit EXCEPT !.st = Emit(unit.st), !.why = Because(Emit(unit.st), "timer")]
    /\ UNCHANGED pipevars

UnitBatchTick ==
    /\ unit.op = "batched"
    /\ ~unit.st.ended
    /\ unit.now < BatchClock
    /\ unit.st.timer # None => unit.now < unit.st.timer
    /\ unit' = [unit EXCEPT !.now = @ + 1]
    /\ UNCHANGED pipevars

UnitSourceEnd ==
    /\ unit.op = "batched"
    /\ ~unit.st.ended
    /\ unit' = [unit EXCEPT !.st = SourceEnd(unit.st), !.why = Because(SourceEnd(unit.st), "end")]
    /\ UNCHANGED pipevars

BatchedNext == UnitSourceItem \/ UnitBatchTimer \/ UnitBatchTick \/ UnitSourceEnd

BatchedSpec == BatchedInit /\ [][BatchedNext]_vars

\* every item the stream took is in an output or in the reducer, in the
\* order of arrival; no output is empty; after the end nothing is held
NothingLost ==
    /\ Flatten(unit.st.outputs) \o unit.st.b.buffer = unit.pulled
    /\ \A i \in DOMAIN unit.st.outputs : unit.st.outputs[i] # <<>>
    /\ unit.st.ended => Flatten(unit.st.outputs) = unit.pulled
    /\ unit.st.timer # None <=> (unit.st.b.buffer # <<>> /\ ~unit.st.ended)
    /\ unit.st.timer # None => unit.now <= unit.st.timer

\* the three steps that emit: the reducer rejects the item the source
\* yields, the wait measured from the first item of the batch has elapsed,
\* the source ends on a reducer that is not empty
Rejects ==
    /\ Len(unit'.pulled) = Len(unit.pulled) + 1
    /\ TryPush(unit.st.b, unit'.pulled[Len(unit'.pulled)]).back # <<>>

Elapses ==
    /\ unit'.pulled = unit.pulled
    /\ unit'.st.ended = unit.st.ended
    /\ unit'.now = unit.now
    /\ unit.st.timer = unit.now

EndsHolding ==
    /\ unit'.st.ended /\ ~unit.st.ended
    /\ unit.st.b.buffer # <<>>

EmitsWhenDue ==
    /\ Len(unit'.st.outputs) \in {Len(unit.st.outputs), Len(unit.st.outputs) + 1}
    /\ Len(unit'.st.outputs) = Len(unit.st.outputs) + 1 <=> (Rejects \/ Elapses \/ EndsHolding)
    /\ (unit.st.b.buffer = <<>> /\ unit'.st.b.buffer # <<>>) => unit'.st.timer = unit.now + MaxWait
    /\ (unit.st.b.buffer # <<>> /\ Len(unit'.st.outputs) = Len(unit.st.outputs))
          => unit'.st.timer \in {unit.st.timer, None}

\* C24: BatchedStream emits an output exactly when the reducer rejects an
\* item, when the wait measured from the first accepted item of the batch
\* elapses, or when the source ends with a reducer that is not empty; when
\* the source has ended every accepted item has been emitted in an output,
\* so that no accepted item is lost.
C24_BatchedEmits ==
    /\ [](unit.op = "batched" => NothingLost)
    /\ [][unit.op = "batched" => EmitsWhenDue]_vars

\* a batch emitted by a rejection, one by the timer and one by the end of
\* the source
C24_Witness ==
    /\ unit.op = "batched"
    /\ unit.st.ended
    /\ unit.why = <<"reject", "timer", "end">>
    /\ Flatten(unit.st.outputs) = unit.pulled


(***************************************************************************)
(* PartitionedStream over the aggregator's RecordBatcher, one reducer and  *)
(* one timer per predicted shard (lib.rs:171-179).                         *)
(***************************************************************************)
\* a partition: mutated in the comparison below
PartitionOne(rec) == 1

\* impl Partitioned for Record: the predicted shard
Partition(rec) == rec.predicted_shard_id[1]

NoPartition == [present |-> FALSE, b |-> BatcherNew(AggMaxBytes, AggMaxRecords), timer |-> None]

\* partition k emits what its reducer holds and its entry is dropped
PartEmit(ps, k) ==
    [ps EXCEPT !.part[k] = NoPartition,
               !.outputs = @ \o Take(ps.part[k].b).out]

\* an item arrives at time now: its partition is created when absent, a
\* rejected item emits the partition's batch and is offered again
PartItem(ps, item, now) ==
    LET k == Partition(item)
        p1 == IF TryPush(ps.part[k].b, item).back = <<>> THEN ps ELSE PartEmit(ps, k)
    IN [p1 EXCEPT !.part[k] = [present |-> TRUE,
                               b |-> TryPush(p1.part[k].b, item).b,
                               timer |-> IF p1.part[k].present THEN p1.part[k].timer
                                         ELSE now + MaxWait]]

PartInit ==
    /\ PipeInit
    /\ unit = [op |-> "partitioned",
               ps |-> [part |-> [k \in Shards |-> NoPartition], outputs |-> <<>>],
               now |-> 0, arrived |-> <<>>, ended |-> FALSE]

UnitPartItem ==
    /\ unit.op = "partitioned"
    /\ ~unit.ended
    /\ Len(unit.arrived) < MaxPush
    /\ \E len \in Lens, s \in Shards :
          LET item == [Rec("k1", len, <<>>, Len(unit.arrived) + 1, <<>>)
                          EXCEPT !.predicted_shard_id = <<s, 1>>]
          IN unit' = [unit EXCEPT !.ps = PartItem(unit.ps, item, unit.now),
                                  !.arrived = Append(@, item)]
    /\ UNCHANGED pipevars

\* the wait of partition k has elapsed
UnitPartTimer(k) ==
    /\ unit.op = "partitioned"
    /\ unit.ps.part[k].present
    /\ unit.now = unit.ps.part[k].timer
    /\ unit' = [unit EXCEPT !.ps = PartEmit(unit.ps, k)]
    /\ UNCHANGED pipevars

UnitPartTick ==
    /\ unit.op = "partitioned"
    /\ ~unit.ended
    /\ unit.now < BatchClock
    /\ \A k \in Shards : unit.ps.part[k].present => unit.now < unit.ps.part[k].timer
    /\ unit' = [unit EXCEPT !.now = @ + 1]
    /\ UNCHANGED pipevars

UnitPartEnd ==
    /\ unit.op = "partitioned"
    /\ ~unit.ended
    /\ unit' = [unit EXCEPT !.ended = TRUE]
    /\ UNCHANGED pipevars

\* after the end of the source the partitions are flushed one by one
UnitPartFlush(k) ==
    /\ unit.op = "partitioned"
    /\ unit.ended
    /\ unit.ps.part[k].present
    /\ unit' = [unit EXCEPT !.ps = PartEmit(unit.ps, k)]
    /\ UNCHANGED pipevars

PartNext ==
    \/ UnitPartItem
    \/ \E k \in Shards : UnitPartTimer(k)
    \/ UnitPartTick
    \/ UnitPartEnd
    \/ \E k \in Shards : UnitPartFlush(k)

PartSpec == PartInit /\ [][PartNext]_vars

\* the items of s that carry predicted shard k, in the order of s
RECURSIVE OfShard(_, _)
OfShard(s, k) ==
    IF s = <<>> THEN <<>>
    ELSE IF Head(s).predicted_shard_id[1] = k THEN <<Head(s)>> \o OfShard(Tail(s), k)
    ELSE OfShard(Tail(s), k)

OneKeyInOrder ==
    /\ \A i \in DOMAIN unit.ps.outputs :
          /\ unit.ps.outputs[i] # <<>>
          /\ \A x, y \in Range(unit.ps.outputs[i]) :
                x.predicted_shard_id[1] = y.predicted_shard_id[1]
    /\ \A k \in Shards :
          OfShard(Flatten(unit.ps.outputs), k) \o unit.ps.part[k].b.buffer
              = OfShard(unit.arrived, k)

\* a step that emits without an arrival: the timer or the flush of one
\* partition
EmitsOne(k) ==
    /\ unit'.arrived = unit.arrived
    /\ unit.ps.part[k].present /\ ~unit'.ps.part[k].present

OthersUntouched ==
    \A k \in Shards :
        EmitsOne(k) =>
            /\ unit'.ps.outputs = Append(unit.ps.outputs, unit.ps.part[k].b.buffer)
            /\ \A o \in Shards \ {k} : unit'.ps.part[o] = unit.ps.part[o]

\* C25: every output of the partitioned stream holds items of one partition
\* key only, the items of one key are in the outputs in the order they
\* arrived, and a timer expiry or a flush of one partition emits exactly
\* one output, of that key, and leaves the items and the timer of every
\* other partition as they were.
C25_PartitionsIndependent ==
    /\ [](unit.op = "partitioned" => OneKeyInOrder)
    /\ [][unit.op = "partitioned" => OthersUntouched]_vars

\* the timer of shard 1 has emitted while shard 2 holds an item and an
\* armed timer; records of both shards had arrived, interleaved
C25_Witness ==
    /\ unit.op = "partitioned"
    /\ Len(unit.ps.outputs) = 1
    /\ unit.ps.outputs[1][1].predicted_shard_id[1] = 1
    /\ ~unit.ps.part[1].present
    /\ unit.ps.part[2].present /\ unit.ps.part[2].timer > unit.now
    /\ Len(unit.ps.part[2].b.buffer) = 1
    /\ Len(unit.arrived) = 3
    /\ unit.arrived[2].predicted_shard_id[1] = 2


(***************************************************************************)
(* The rate-limited stage of one shard (lib.rs:180-183) over the           *)
(* RecordLimiter: an item is forwarded after try_take succeeds, and tried  *)
(* again after a sleep when it fails.                                      *)
(***************************************************************************)
LimitedInit ==
    /\ PipeInit
    /\ \E rc \in 0 .. LimiterRps, bc \in 0 .. LimiterBps :
          unit = [op |-> "limited",
                  lim |-> [records |-> Bucket(LimiterRps, rc),
                           bytes |-> Bucket(LimiterBps, bc)],
                  now |-> 0, held |-> <<>>, failed |-> FALSE,
                  pulled |-> 0, forwarded |-> <<>>]

\* the stage takes the next aggregate from the partitioned stage; some
\* are larger than the bytes per second of the shard
UnitLimitedPull ==
    /\ unit.op = "limited"
    /\ unit.held = <<>>
    /\ unit.pulled < MaxPush
    /\ \E len \in 1 .. LimiterBps + 1 :
          unit' = [unit EXCEPT !.held = <<Rec("k1", len, <<>>, unit.pulled + 1, <<>>)>>,
                               !.pulled = @ + 1, !.failed = FALSE]
    /\ UNCHANGED pipevars

\* try_take on the held item: forwarded to the batch stage when it
\* succeeds, kept for the next try when it fails
UnitLimitedTry ==
    /\ unit.op = "limited"
    /\ unit.held # <<>>
    /\ LET r == LimiterTryTake(unit.lim, unit.now, unit.held[1])
       IN unit' = [unit EXCEPT !.lim = r.lim,
                               !.held = IF r.ok THEN <<>> ELSE @,
                               !.failed = ~r.ok,
                               !.forwarded = IF r.ok THEN @ \o unit.held ELSE @]
    /\ UNCHANGED pipevars

UnitLimitedTick ==
    /\ unit.op = "limited"
    /\ unit.now < MaxNow
    /\ unit' = [unit EXCEPT !.now = @ + 1]
    /\ UNCHANGED pipevars

LimitedNext == UnitLimitedPull \/ UnitLimitedTry \/ UnitLimitedTick

LimitedSpec == LimitedInit /\ [][LimitedNext]_vars

KeyBytes == [k \in Keys |-> IF k = "k1" THEN <<107, 49>> ELSE <<107, 50>>]
Datas == {<<>>, <<26>>, <<8, 10>>, <<0, 26>>}

Magic == <<243, 137, 154, 194>>
DigestLen == 16

RECURSIVE SumBytes(_)
SumBytes(bytes) == IF bytes = <<>> THEN 0 ELSE Head(bytes) + SumBytes(Tail(bytes))

\* md5::compute: a digest of DigestLen bytes that depends on every byte
\* hashed and on their number
Md5(bytes) == [i \in 1 .. DigestLen |-> (SumBytes(bytes) * i + Len(bytes) + i) % 256]

\* an interner that would hand out the number of strings held as the index
\* of a string it already holds
InternCount(table, data) ==
    IF \E i \in DOMAIN table : table[i] = data
    THEN [table |-> table, idx |-> Len(table)]
    ELSE [table |-> Append(table, data), idx |-> Len(table)]

\* an interner that would insert every string it is given
InternAppend(table, data) == [table |-> Append(table, data), idx |-> Len(table)]

\* StringInterner::intern: the index (from 0) of the string, inserted at
\* the end when new
Intern(table, data) ==
    IF \E i \in DOMAIN table : table[i] = data
    THEN [table |-> table, idx |-> (CHOOSE i \in DOMAIN table : table[i] = data) - 1]
    ELSE [table |-> Append(table, data), idx |-> Len(table)]

\* RecordAggregator::aggregate: one proto::Record per record in order,
\* then the table of the interner
RECURSIVE AggregateFrom(_, _, _)
AggregateFrom(records, table, done) ==
    IF records = <<>> THEN [records |-> done, partition_key_table |-> table]
    ELSE LET r == Intern(table, KeyBytes[Head(records).partition_key])
         IN AggregateFrom(Tail(records), r.table,
                          Append(done, [partition_key_index |-> r.idx,
                                        data |-> Head(records).data]))

Aggregate(records) == AggregateFrom(records, <<>>, <<>>)

\* prost::Message::encode of AggregatedRecord: field 1 the strings of the
\* table, field 3 the records, each with field 1 the index as a varint and
\* field 3 the data; lengths and indexes here fit one varint byte
EncodeRecord(r) == <<8, r.partition_key_index, 26, Len(r.data)>> \o r.data

RECURSIVE EncodeEach(_, _)
EncodeEach(items, tag) ==
    IF items = <<>> THEN <<>>
    ELSE <<tag, Len(Head(items))>> \o Head(items) \o EncodeEach(Tail(items), tag)

Encode(m) ==
    EncodeEach(m.partition_key_table, 10)
        \o EncodeEach([i \in DOMAIN m.records |-> EncodeRecord(m.records[i])], 26)

\* the payload read back: the fields of a record, then the message
RECURSIVE DecodeRecord(_, _)
DecodeRecord(bytes, r) ==
    IF bytes = <<>> THEN r
    ELSE IF Head(bytes) = 8 /\ Len(bytes) >= 2
         THEN DecodeRecord(SubSeq(bytes, 3, Len(bytes)), [r EXCEPT !.partition_key_index = bytes[2]])
    ELSE IF Head(bytes) = 26 /\ Len(bytes) >= 2 /\ Len(bytes) >= 2 + bytes[2]
         THEN DecodeRecord(SubSeq(bytes, 3 + bytes[2], Len(bytes)),
                           [r EXCEPT !.data = SubSeq(bytes, 3, 2 + bytes[2])])
    ELSE [r EXCEPT !.malformed = TRUE]

RECURSIVE Decode(_, _)
Decode(bytes, m) ==
    IF bytes = <<>> THEN m
    ELSE IF Len(bytes) < 2 \/ Len(bytes) < 2 + bytes[2] \/ Head(bytes) \notin {10, 26}
         THEN [m EXCEPT !.malformed = TRUE]
    ELSE LET field == SubSeq(bytes, 3, 2 + bytes[2])
             rest == SubSeq(bytes, 3 + bytes[2], Len(bytes))
         IN IF Head(bytes) = 10
            THEN Decode(rest, [m EXCEPT !.partition_key_table = Append(@, field)])
            ELSE Decode(rest, [m EXCEPT !.records =
                     Append(@, DecodeRecord(field, [partition_key_index |-> 0, data |-> <<>>,
                                                    malformed |-> FALSE]))])

\* a take that would name the aggregate after its last child
AggregateTakeLast(records) ==
    LET buf == Magic \o Encode(Aggregate(records))
    IN [partition_key |-> records[Len(records)].partition_key,
        data |-> buf \o Md5(SubSeq(buf, 5, Len(buf))),
        predicted_shard_id |-> records[Len(records)].predicted_shard_id,
        acker |-> None,
        children |-> records]

\* Reducer::take of RecordAggregator on the records inner.take() gave:
\* magic, encoded message, md5 of buf[4..]
AggregateTake(records) ==
    LET buf == Magic \o Encode(Aggregate(records))
    IN [partition_key |-> records[1].partition_key,
        data |-> buf \o Md5(SubSeq(buf, 5, Len(buf))),
        predicted_shard_id |-> records[1].predicted_shard_id,
        acker |-> None,
        children |-> records]

AggregatorInit ==
    /\ PipeInit
    /\ unit = [op |-> "aggregator", b |-> BatcherNew(BatcherBytes, BatcherRecords),
               pushes |-> 0, held |-> <<>>, out |-> <<>>]

\* Reducer::try_push of RecordAggregator: inner.try_push; the records
\* were predicted on one shard, each under a generation of its own
UnitAggregatorPush ==
    /\ unit.op = "aggregator"
    /\ unit.pushes < MaxPush
    /\ \E key \in Keys, data \in Datas :
          LET item == [partition_key |-> key, data |-> data, len |-> Len(data),
                       predicted_shard_id |-> <<1, unit.pushes + 1>>,
                       acker |-> unit.pushes + 1, children |-> <<>>]
          IN unit' = [unit EXCEPT !.b = TryPush(unit.b, item).b, !.pushes = @ + 1, !.out = <<>>]
    /\ UNCHANGED pipevars

\* Reducer::take of RecordAggregator; held is what the aggregator held
UnitAggregatorTake ==
    /\ unit.op = "aggregator"
    /\ LET t == Take(unit.b)
       IN unit' = [unit EXCEPT !.b = t.b, !.held = unit.b.buffer,
                               !.out = IF t.out = <<>> THEN <<>>
                                       ELSE <<AggregateTake(t.out[1])>>]
    /\ UNCHANGED pipevars

AggregatorNext == UnitAggregatorPush \/ UnitAggregatorTake

AggregatorSpec == AggregatorInit /\ [][AggregatorNext]_vars

\* the payload of the aggregate between the magic and the trailer
Body(buf) == SubSeq(buf, Len(Magic) + 1, Len(buf) - DigestLen)

\* C27: for the records R the aggregator held (not none), the payload taken
\* has one entry per record of R in arrival order, each
\* partition_key_index a valid index of partition_key_table whose string
\* is the partition key of that record, each data the data of that
\* record, and the bytes are the 4-byte magic, the encoded message and the
\* MD5 of exactly the bytes between the magic and the trailer.
C27_AggregateRoundTrip ==
    (unit.op = "aggregator" /\ unit.out # <<>>) =>
        LET buf == unit.out[1].data
            R == unit.held
            m == Decode(Body(buf), [partition_key_table |-> <<>>, records |-> <<>>,
                                    malformed |-> FALSE])
        IN /\ R # <<>>
           /\ Len(buf) >= Len(Magic) + DigestLen
           /\ SubSeq(buf, 1, Len(Magic)) = Magic
           /\ SubSeq(buf, Len(buf) - DigestLen + 1, Len(buf)) = Md5(Body(buf))
           /\ ~m.malformed
           /\ Len(m.records) = Len(R)
           /\ \A i \in DOMAIN R :
                 /\ ~m.records[i].malformed
                 /\ m.records[i].partition_key_index + 1 \in DOMAIN m.partition_key_table
                 /\ m.partition_key_table[m.records[i].partition_key_index + 1]
                        = KeyBytes[R[i].partition_key]
                 /\ m.records[i].data = R[i].data

\* three records, the key of the first again on the third, data that read
\* like field tags
C27_Witness ==
    /\ unit.op = "aggregator"
    /\ unit.out # <<>>
    /\ Len(unit.held) = 3
    /\ unit.held[1].partition_key = "k1"
    /\ unit.held[2].partition_key = "k2"
    /\ unit.held[3].partition_key = "k1"
    /\ unit.held[2].data = <<26>>
    /\ unit.held[3].data = <<8, 10>>


(***************************************************************************)
(* RenewalTokenDaoMemory (services/auth/src/dao/renewal/memory.rs): a map  *)
(* from client_id#token to the renewal token, behind a mutex, called by    *)
(* concurrent requests.                                                    *)
(***************************************************************************)
NProc == 2
MaxDaoCalls == 4
Procs == 1 .. NProc
Clients == {"c1", "c2"}
Tokens == {"t1", "t2"}
Expiries == {1, 3}

\* [client_id, &token].join("#")
DaoKey(client_id, token) == <<client_id, "#", token>>

\* a consume that would read the entry and leave it in the map
ConsumePeek(data, client_id, token, now) ==
    LET key == DaoKey(client_id, token)
    IN IF key \notin DOMAIN data THEN [data |-> data, result |-> "InvalidCredential"]
       ELSE [data |-> data,
             result |-> IF data[key].expiry < now THEN "ExpiredCredential" ELSE "Ok"]

\* consume under the lock: data.remove(&key), InvalidCredential when there
\* was none, ExpiredCredential when the removed token has expired
ConsumeEntry(data, client_id, token, now) ==
    LET key == DaoKey(client_id, token)
    IN IF key \notin DOMAIN data THEN [data |-> data, result |-> "InvalidCredential"]
       ELSE [data |-> [k \in DOMAIN data \ {key} |-> data[k]],
             result |-> IF data[key].expiry < now THEN "ExpiredCredential" ELSE "Ok"]

\* generate under the lock: AlreadyExists when the key is held, else the
\* renewal token is inserted
GenerateEntry(data, client_id, token, expiry) ==
    LET key == DaoKey(client_id, token)
    IN IF key \in DOMAIN data THEN [data |-> data, result |-> "AlreadyExists"]
       ELSE [data |-> [k \in DOMAIN data \cup {key} |->
                          IF k = key THEN [client_id |-> client_id, expiry |-> expiry]
                          ELSE data[k]],
             result |-> "Ok"]

NoCall == [pc |-> "idle", op |-> "none", client_id |-> "c1", token |-> "t1",
           expiry |-> 0, result |-> "none", fresh |-> FALSE]

\* issued: the tokens TokenService::token has returned (24 random bytes,
\* never the same twice); consumed: the tokens a consume has succeeded on
DaoInit ==
    /\ PipeInit
    /\ unit = [op |-> "renewal", data |-> <<>>, mutex |-> 0, now |-> 0, calls |-> 0,
               proc |-> [p \in Procs |-> NoCall],
               issued |-> {}, consumed |-> {}, successes |-> [t \in Tokens |-> 0]]

\* a request calls generate: the token is drawn before the lock is asked
UnitGenerateCall(p) ==
    /\ unit.op = "renewal"
    /\ unit.proc[p].pc \in {"idle", "done"}
    /\ unit.calls < MaxDaoCalls
    /\ \E c \in Clients, t \in Tokens \ unit.issued, e \in Expiries :
          unit' = [unit EXCEPT !.proc[p] = [NoCall EXCEPT !.pc = "waiting", !.op = "generate",
                                                          !.client_id = c, !.token = t,
                                                          !.expiry = e],
                               !.issued = @ \cup {t},
                               !.calls = @ + 1]
    /\ UNCHANGED pipevars

\* a request calls consume with a token that was issued; fresh records
\* that no consume of the token had succeeded when the call began
UnitConsumeCall(p) ==
    /\ unit.op = "renewal"
    /\ unit.proc[p].pc \in {"idle", "done"}
    /\ unit.calls < MaxDaoCalls
    /\ \E c \in Clients, t \in unit.issued :
          unit' = [unit EXCEPT !.proc[p] = [NoCall EXCEPT !.pc = "waiting", !.op = "consume",
                                                          !.client_id = c, !.token = t,
                                                          !.fresh = (t \notin unit.consumed)],
                               !.calls = @ + 1]
    /\ UNCHANGED pipevars

\* self.data.lock().await
UnitDaoLock(p) ==
    /\ unit.op = "renewal"
    /\ unit.proc[p].pc = "waiting"
    /\ unit.mutex = 0
    /\ unit' = [unit EXCEPT !.mutex = p, !.proc[p].pc = "locked"]
    /\ UNCHANGED pipevars

\* the body under the lock, which is released at the return
UnitDaoBody(p) ==
    /\ unit.op = "renewal"
    /\ unit.proc[p].pc = "locked"
    /\ LET req == unit.proc[p]
           r == IF req.op = "generate"
                THEN GenerateEntry(unit.data, req.client_id, req.token, req.expiry)
                ELSE ConsumeEntry(unit.data, req.client_id, req.token, unit.now)
           won == req.op = "consume" /\ r.result = "Ok"
       IN unit' = [unit EXCEPT !.data = r.data, !.mutex = 0,
                               !.proc[p].pc = "done", !.proc[p].result = r.result,
                               !.consumed = IF won THEN @ \cup {req.token} ELSE @,
                               !.successes[req.token] = IF won THEN @ + 1 ELSE @]
    /\ UNCHANGED pipevars

UnitDaoTick ==
    /\ unit.op = "renewal"
    /\ unit.now < MaxNow
    /\ unit' = [unit EXCEPT !.now = @ + 1]
    /\ UNCHANGED pipevars

DaoNext ==
    \/ \E p \in Procs : UnitGenerateCall(p)
    \/ \E p \in Procs : UnitConsumeCall(p)
    \/ \E p \in Procs : UnitDaoLock(p)
    \/ \E p \in Procs : UnitDaoBody(p)
    \/ UnitDaoTick

DaoSpec == DaoInit /\ [][DaoNext]_vars

\* a consume that returns for a token already consumed returns
\* InvalidCredential
LaterConsumeInvalid ==
    \A p \in Procs :
        (/\ unit.proc[p].pc = "locked" /\ unit'.proc[p].pc = "done"
         /\ unit.proc[p].op = "consume"
         /\ unit.proc[p].token \in unit.consumed)
        => unit'.proc[p].result = "InvalidCredential"

\* C28: a token generate returned is consumed successfully at most once:
\* after a successful consume(client_id, token) every later consume of the
\* token returns InvalidCredential, and of two concurrent consume calls of
\* one token at most one succeeds.
C28_ConsumeAtMostOnce ==
    /\ [](unit.op = "renewal" =>
            /\ \A t \in Tokens : unit.successes[t] <= 1
            /\ \A p, q \in Procs :
                  (/\ p # q
                   /\ unit.proc[p].op = "consume" /\ unit.proc[q].op = "consume"
                   /\ unit.proc[p].token = unit.proc[q].token
                   /\ unit.proc[p].result = "Ok")
                  => unit.proc[q].result # "Ok")
    /\ [][unit.op = "renewal" => LaterConsumeInvalid]_vars

\* two consume calls of one token, both begun before either had
\* succeeded: one returned the token, the other InvalidCredential
C28_Witness ==
    /\ unit.op = "renewal"
    /\ \E p, q \in Procs :
          /\ unit.proc[p].op = "consume" /\ unit.proc[q].op = "consume"
          /\ unit.proc[p].token = unit.proc[q].token
          /\ unit.proc[p].client_id = unit.proc[q].client_id
          /\ unit.proc[p].fresh /\ unit.proc[q].fresh
          /\ unit.proc[p].result = "Ok"
          /\ unit.proc[q].result = "InvalidCredential"


(***************************************************************************)
(* The token endpoint of the auth service (services/auth/src/api/token.rs  *)
(* over service/auth.rs): one registered client, one user credential, the  *)
(* renewal tokens stored for the client.                                   *)
(***************************************************************************)
MaxTokens == 1
Scopes == {"superuser", "offline_access"}
Grants == {"password", "client_credentials", "refresh_token"}

BadRequest == 400
Unauthorized == 401
StatusOk == 200

\* ApiError as a response: no body with tokens
Reject(st, status) == [status |-> status, access |-> <<>>, refresh |-> FALSE, store |-> st.store]

\* an issue that would hand a renewal token to a grant without a subject
IssueWithoutSubject(st, store, scopes, subject) ==
    LET renew == "offline_access" \in scopes
    IN [status |-> StatusOk, access |-> <<scopes>>, refresh |-> renew,
        store |-> IF renew THEN Append(store, [present |-> TRUE, scopes |-> scopes,
                                               expired |-> FALSE])
                  ELSE store]

\* generate_access_token, then generate_renewal_token: a renewal token
\* with the scopes authenticated when they hold offline_access and there
\* is a subject
Issue(st, store, scopes, subject) ==
    LET renew == "offline_access" \in scopes /\ subject
    IN [status |-> StatusOk, access |-> <<scopes>>, refresh |-> renew,
        store |-> IF renew THEN Append(store, [present |-> TRUE, scopes |-> scopes,
                                               expired |-> FALSE])
                  ELSE store]

\* an auth_password that would compare the scopes asked with the client's
\* only
AuthPasswordClientOnly(st, req) ==
    IF req.cred # "ok" THEN Reject(st, BadRequest)
    ELSE IF req.scope \ st.client.scopes # {} THEN Reject(st, BadRequest)
    ELSE Issue(st, st.store, req.scope, TRUE)

\* AuthService::auth_password: verify, then the scopes asked against the
\* client's and the user's
AuthPassword(st, req) ==
    IF req.cred = "missing" THEN Reject(st, BadRequest)
    ELSE IF req.cred # "ok" THEN Reject(st, BadRequest)
    ELSE IF req.scope \ st.client.scopes # {} \/ req.scope \ st.user.scopes # {}
         THEN Reject(st, BadRequest)
    ELSE Issue(st, st.store, req.scope, TRUE)

\* AuthService::auth_client_credential
AuthClientCredential(st, req) ==
    IF req.cred = "missing" THEN Reject(st, BadRequest)
    ELSE IF req.cred # "ok" THEN Reject(st, BadRequest)
    ELSE IF req.scope \ st.client.scopes # {} THEN Reject(st, BadRequest)
    ELSE Issue(st, st.store, req.scope, FALSE)

\* AuthService::auth_refresh_token: the token is consumed first, then the
\* scopes are compared; no scopes asked means the scopes of the token
AuthRefreshToken(st, req) ==
    IF req.token = 0 THEN Reject(st, BadRequest)
    ELSE IF req.token \notin DOMAIN st.store \/ ~st.store[req.token].present
         THEN Reject(st, BadRequest)
    ELSE LET tok == st.store[req.token]
             store == [st.store EXCEPT ![req.token].present = FALSE]
         IN IF tok.expired THEN [Reject(st, Unauthorized) EXCEPT !.store = store]
            ELSE IF req.scope = {}
                 THEN IF tok.scopes \ st.client.scopes # {}
                      THEN [Reject(st, BadRequest) EXCEPT !.store = store]
                      ELSE Issue(st, store, tok.scopes, TRUE)
            ELSE IF req.scope \ st.client.scopes # {} \/ req.scope \ tok.scopes # {}
                 THEN [Reject(st, BadRequest) EXCEPT !.store = store]
            ELSE Issue(st, store, req.scope, TRUE)

\* token(): get_authenticator on the client_id, then the arm of the
\* grant_type of the request
Token(st, req) ==
    IF ~req.client_known THEN Reject(st, BadRequest)
    ELSE IF req.grant_type = "password" THEN AuthPassword(st, req)
    ELSE IF req.grant_type = "client_credentials" THEN AuthClientCredential(st, req)
    ELSE AuthRefreshToken(st, req)

NoRequest == [grant_type |-> "password", client_known |-> FALSE, cred |-> "missing",
              token |-> 0, scope |-> {}]

\* a client registered with some scopes and no grant or one grant, a user
\* with some scopes
TokenInit ==
    /\ PipeInit
    /\ \E cs \in SUBSET Scopes, gs \in {{}} \cup {{g} : g \in Grants}, us \in SUBSET Scopes :
          unit = [op |-> "token",
                  st |-> [client |-> [scopes |-> cs, grants |-> gs],
                          user |-> [scopes |-> us], store |-> <<>>],
                  presented |-> <<>>, req |-> NoRequest, resp |-> <<>>]

\* RenewalTokenDao::generate for the client, with any scopes
UnitStoreToken ==
    /\ unit.op = "token"
    /\ Len(unit.st.store) < MaxTokens
    /\ \E ts \in SUBSET Scopes :
          unit' = [unit EXCEPT !.st.store = Append(@, [present |-> TRUE, scopes |-> ts,
                                                        expired |-> FALSE]),
                               !.resp = <<>>]
    /\ UNCHANGED pipevars

\* the expiry of a stored token passes
UnitTokenExpire ==
    /\ unit.op = "token"
    /\ \E i \in DOMAIN unit.st.store :
          /\ ~unit.st.store[i].expired
          /\ unit' = [unit EXCEPT !.st.store[i].expired = TRUE, !.resp = <<>>]
    /\ UNCHANGED pipevars

\* POST /api/v1/token; cred is the password (ok, wrong, nouser, missing)
\* or the client secret (ok, wrong, missing) of the request; presented is
\* the stored token the request names, as it was
UnitTokenRequest ==
    /\ unit.op = "token"
    /\ \E g \in Grants, known \in BOOLEAN, cred \in {"ok", "wrong", "nouser", "missing"},
          tk \in 0 .. MaxTokens, sc \in SUBSET Scopes :
          /\ g = "refresh_token" => cred = "missing"
          /\ g # "refresh_token" => tk = 0
          /\ g = "client_credentials" => cred # "nouser"
          /\ ~known => (g = "password" /\ cred = "ok" /\ sc = {})
          /\ LET req == [grant_type |-> g, client_known |-> known, cred |-> cred,
                         token |-> tk, scope |-> sc]
                 r == Token(unit.st, req)
             IN /\ Len(r.store) <= MaxTokens + 1
                /\ unit' = [unit EXCEPT !.st.store = r.store,
                                        !.presented = IF tk \in DOMAIN unit.st.store
                                                      THEN <<unit.st.store[tk]>> ELSE <<>>,
                                        !.req = req, !.resp = <<r>>]
    /\ UNCHANGED pipevars

TokenNext == UnitStoreToken \/ UnitTokenExpire \/ UnitTokenRequest

TokenSpec == TokenInit /\ [][TokenNext]_vars

\* C29: a token request whose grant_type is not among the grants
\* registered for the client is rejected with 400 and issues no token,
\* also when the credentials are correct and the scopes asked are allowed
\* to the client and to the user.
C29_UnregisteredGrantRejected ==
    (/\ unit.op = "token" /\ unit.resp # <<>>
     /\ unit.req.client_known
     /\ unit.req.grant_type \notin unit.st.client.grants)
    => (/\ unit.resp[1].status = BadRequest
        /\ unit.resp[1].access = <<>>
        /\ ~unit.resp[1].refresh)


\* the request presents a principal: the user of a password grant, the
\* stored token of a refresh_token grant, the client itself otherwise
HasPrincipal ==
    CASE unit.req.grant_type = "password" -> unit.req.cred \in {"ok", "wrong"}
      [] unit.req.grant_type = "refresh_token" ->
            unit.presented # <<>> /\ unit.presented[1].present
      [] OTHER -> TRUE

PrincipalScopes ==
    CASE unit.req.grant_type = "password" -> unit.st.user.scopes
      [] unit.req.grant_type = "refresh_token" -> unit.presented[1].scopes
      [] OTHER -> unit.st.client.scopes

\* the request names a scope outside the client's or the principal's
NamesIllegalScope ==
    \/ unit.req.scope \ unit.st.client.scopes # {}
    \/ HasPrincipal /\ unit.req.scope \ PrincipalScopes # {}

IssuedWithinBoth ==
    unit.resp[1].access # <<>> =>
        /\ unit.resp[1].status = StatusOk
        /\ HasPrincipal
        /\ unit.resp[1].access[1] \subseteq unit.st.client.scopes
        /\ unit.resp[1].access[1] \subseteq PrincipalScopes
        /\ unit.resp[1].refresh =>
              unit.st.store[Len(unit.st.store)].scopes = unit.resp[1].access[1]

NothingIssued == unit.resp[1].access = <<>> /\ ~unit.resp[1].refresh

RefreshWhenOffline ==
    unit.resp[1].status = StatusOk =>
        /\ unit.resp[1].refresh <=>
              (/\ "offline_access" \in unit.resp[1].access[1]
               /\ unit.req.grant_type \in {"password", "refresh_token"})
        /\ unit.resp[1].refresh =>
              /\ unit.st.store # <<>>
              /\ unit.st.store[Len(unit.st.store)]
                    = [present |-> TRUE, scopes |-> unit.resp[1].access[1], expired |-> FALSE]

\* the client presents the renewal token it was just given: the token is
\* found and consumed, and with no scopes asked the grant succeeds
ConsumableByClient ==
    (/\ unit.resp # <<>> /\ unit.resp[1].refresh
     /\ unit'.resp # <<>> /\ unit'.req.client_known
     /\ unit'.req.grant_type = "refresh_token"
     /\ unit'.req.token = Len(unit.st.store))
    => (/\ unit'.presented = <<unit.st.store[Len(unit.st.store)]>>
        /\ ~unit'.st.store[Len(unit.st.store)].present
        /\ unit'.req.scope = {} => unit'.resp[1].status = StatusOk)

\* C31: a successful token response holds a refresh token if and only if
\* the scopes granted include offline_access and the grant has a subject
\* (password or refresh_token, never client_credentials); the refresh
\* token returned is stored for the client and the client can consume it.
C31_RefreshIffOfflineSubject ==
    /\ [](unit.op = "token" /\ unit.resp # <<>> => RefreshWhenOffline)
    /\ [][unit.op = "token" => ConsumableByClient]_vars

\* a refresh_token grant that consumed a live token holding offline_access
\* and returned a new refresh token, stored after the consumed one
C31_Witness ==
    /\ unit.op = "token" /\ unit.resp # <<>>
    /\ unit.req.grant_type = "refresh_token"
    /\ unit.resp[1].status = StatusOk
    /\ unit.resp[1].refresh
    /\ Len(unit.st.store) = MaxTokens + 1
    /\ ~unit.st.store[1].present
    /\ unit.st.store[Len(unit.st.store)].present


(***************************************************************************)
(* The reducer contract on RecordBatcher, which RecordAggregator wraps     *)
(* (aggregator.rs:48-50): an item handed back, the take that follows, the  *)
(* item offered again.                                                     *)
(***************************************************************************)
\* a reducer with room for a record and a byte at least
ReofferInit ==
    /\ PipeInit
    /\ \E max_bytes \in 1 .. BatcherBytes, max_records \in 1 .. BatcherRecords :
          unit = [op |-> "reoffer", b |-> BatcherNew(max_bytes, max_records),
                  phase |-> "push", pushes |-> 0, item |-> <<>>, held |-> <<>>,
                  out |-> <<>>, again |-> FALSE]

\* try_push of a new item; held is what the reducer held at the offer
UnitOffer ==
    /\ unit.op = "reoffer"
    /\ unit.phase \in {"push", "reoffered"}
    /\ unit.pushes < MaxPush
    /\ \E len \in 0 .. MaxItemLen + 1 :
          LET item == Rec("k1", len, <<1, 1>>, unit.pushes + 1, <<>>)
              r == TryPush(unit.b, item)
          IN unit' = [unit EXCEPT !.b = r.b, !.pushes = @ + 1, !.item = <<item>>,
                                  !.held = unit.b.buffer, !.out = <<>>,
                                  !.phase = IF r.back = <<>> THEN "push" ELSE "rejected"]
    /\ UNCHANGED pipevars

\* the take after a rejection
UnitTakeAfter ==
    /\ unit.op = "reoffer"
    /\ unit.phase = "rejected"
    /\ LET t == Take(unit.b)
       IN unit' = [unit EXCEPT !.b = t.b, !.out = t.out, !.phase = "taken"]
    /\ UNCHANGED pipevars

\* the rejected item is offered again right after the take
UnitReoffer ==
    /\ unit.op = "reoffer"
    /\ unit.phase = "taken"
    /\ LET r == TryPush(unit.b, unit.item[1])
       IN unit' = [unit EXCEPT !.b = r.b, !.again = (r.back = <<>>), !.phase = "reoffered"]
    /\ UNCHANGED pipevars

ReofferNext == UnitOffer \/ UnitTakeAfter \/ UnitReoffer

ReofferSpec == ReofferInit /\ [][ReofferNext]_vars

\* C32: whenever try_push hands an item back, the next take returns an
\* output that is not empty and holds the items accepted before, and the
\* item offered again right after that take is accepted, whatever the
\* sizes of the items and the max_bytes and max_records configured.
C32_RejectThenTakeThenAccept ==
    unit.op = "reoffer" =>
        /\ unit.phase \in {"taken", "reoffered"} =>
              (unit.out # <<>> /\ unit.out[1] = unit.held /\ unit.held # <<>>)
        /\ unit.phase = "reoffered" => unit.again

\* C33: a single record whose data is longer than max_bytes is accepted by
\* an empty aggregator (to be emitted as an aggregate of one), so that its
\* partition does not stall.
C33_OversizedAloneAccepted ==
    (/\ unit.op = "reoffer"
     /\ unit.item # <<>>
     /\ unit.held = <<>>
     /\ unit.b.max_records >= 1
     /\ unit.item[1].len > unit.b.max_bytes)
    => unit.phase \notin {"rejected", "taken"} /\ (unit.phase = "reoffered" => unit.again)


\* a take step of the aggregator harness
TakesAggregate ==
    /\ unit'.pushes = unit.pushes
    /\ IF unit.b.buffer = <<>>
       THEN unit'.out = <<>> /\ unit'.b = unit.b
       ELSE /\ Len(unit'.out) = 1
            /\ unit'.out[1].partition_key = unit.b.buffer[1].partition_key
            /\ unit'.out[1].predicted_shard_id = unit.b.buffer[1].predicted_shard_id
            /\ unit'.out[1].acker = None
            /\ unit'.out[1].children = unit.b.buffer
            /\ unit'.b.buffer = <<>> /\ unit'.b.cur_bytes = 0

\* C34: RecordAggregator::take on a buffer that is not empty returns one
\* Record with the partition key and the predicted shard and generation of
\* the first buffered child, no acker, and the buffered records in arrival
\* order as its children, and leaves the aggregator empty; on an empty
\* buffer it returns nothing.
C34_TakeNamesFirstChild ==
    [][(unit.op = "aggregator" /\ unit'.pushes = unit.pushes) => TakesAggregate]_vars

\* an aggregate of two children with different keys and generations,
\* named after the first, and then a take that returned nothing
C34_Witness ==
    /\ unit.op = "aggregator"
    /\ unit.out # <<>>
    /\ Len(unit.out[1].children) = 2
    /\ unit.out[1].children[1].partition_key = "k2"
    /\ unit.out[1].children[2].partition_key = "k1"
    /\ unit.out[1].partition_key = "k2"
    /\ unit.out[1].predicted_shard_id # unit.out[1].children[2].predicted_shard_id
    /\ unit.b.buffer = <<>>


(***************************************************************************)
(* The end of the retry worker.                                            *)
(***************************************************************************)
\* the retry worker waits in retry.send(record) and nothing in the pipeline
\* can take another step
StuckInSend == shutdown /\ rw.pc = "sending" /\ ~ENABLED ShutdownNext

\* C35: the retry worker ends when the shutdown signal fires or its input
\* channel closes; once shutdown has fired it is never left waiting for
\* ever in its re-send to the submit channel
C35_RetryNeverStuckInSend == ~StuckInSend


(***************************************************************************)
(* One PutRecords task alone: start_send builds the request, the call      *)
(* returns a response whose list of entries has any length, or an error,   *)
(* and handle_response zips the entries with the records                   *)
(* (sink.rs:148-164, 173-212).                                             *)
(***************************************************************************)
MaxRespBatch == 2

\* the batches: raw records with reply slots 1, 2, .. and any keys
RespBatches ==
    UNION {{[i \in 1..n |-> Rec(ks[i], i, <<1, 1>>, i, <<>>)] : ks \in [1..n -> Keys]}
           : n \in 0..MaxRespBatch}

\* an entry that acks its record and one that fails it
RespEntries ==
    {[sequence_number |-> 1, shard_id |-> 1, error_code |-> "none"],
     [sequence_number |-> None, shard_id |-> None, error_code |-> Throughput]}

\* PutRecordsOutput.records: shorter than, as long as, or longer than the batch
RespLists == UNION {[1..n -> RespEntries] : n \in 0..MaxRespBatch + 1}

ResponseInit ==
    /\ PipeInit
    /\ \E item \in RespBatches :
          unit = [op |-> "response", item |-> item, request |-> <<>>, phase |-> "new",
                  response |-> <<>>, i |-> 1,
                  slot |-> [a \in AckIds |->
                              [st |-> IF a \in DOMAIN item THEN "pending" ELSE "none",
                               res |-> NoRes, n |-> 0]],
                  retry |-> <<>>]

\* start_send: nothing for an empty batch, else one PutRecordsRequestEntry
\* per record, in the order of the batch, and the task is spawned
UnitStartSend ==
    /\ unit.op = "response"
    /\ unit.phase = "new"
    /\ unit' = IF unit.item = <<>>
               THEN [unit EXCEPT !.phase = "done"]
               ELSE [unit EXCEPT !.phase = "rpc",
                                 !.request = [i \in DOMAIN unit.item |->
                                                [data |-> unit.item[i].len,
                                                 explicit_hash_key |-> None,
                                                 partition_key |-> unit.item[i].partition_key]]]
    /\ UNCHANGED pipevars

\* client.put_records(input).await returns Ok(response)
UnitPutRecordsOk ==
    /\ unit.op = "response"
    /\ unit.phase = "rpc"
    /\ \E response \in RespLists :
          unit' = [unit EXCEPT !.phase = "resp", !.response = response, !.i = 1]
    /\ UNCHANGED pipevars

\* client.put_records(input).await returns Err(e)
UnitPutRecordsErr ==
    /\ unit.op = "response"
    /\ unit.phase = "rpc"
    /\ unit' = [unit EXCEPT !.phase = "recover", !.i = 1]
    /\ UNCHANGED pipevars

\* for record in item { error_handler.recover(record, InternalFailure) }
UnitRecoverEach ==
    /\ unit.op = "response"
    /\ unit.phase = "recover"
    /\ unit' = IF unit.i <= Len(unit.item)
               THEN [unit EXCEPT !.retry = @ \o RecoverKids(unit.item[unit.i]), !.i = @ + 1]
               ELSE [unit EXCEPT !.phase = "done"]
    /\ UNCHANGED pipevars

\* handle_response: the next pair of the zip of the entries with the
\* records is acked or recovered; the zip ends with the shorter of the two,
\* and what is left of the records is dropped with the iterator
UnitHandleResponse ==
    /\ unit.op = "response"
    /\ unit.phase = "resp"
    /\ LET P0 == [slot |-> unit.slot, call |-> <<>>, log |-> <<>>]
       IN unit' =
            IF unit.i <= Len(unit.response) /\ unit.i <= Len(unit.item)
            THEN LET h == HandleRecord(unit.response[unit.i], unit.item[unit.i])
                 IN IF h.ok
                    THEN [unit EXCEPT !.slot = Ack(P0, unit.item[unit.i], h.ack).slot,
                                      !.i = @ + 1]
                    ELSE [unit EXCEPT !.retry = @ \o RecoverKids(unit.item[unit.i]),
                                      !.i = @ + 1]
            ELSE [unit EXCEPT
                    !.slot = DropRecs(P0, SubSeq(unit.item, unit.i, Len(unit.item))).slot,
                    !.phase = "done"]
    /\ UNCHANGED pipevars

ResponseNext ==
    \/ UnitStartSend
    \/ UnitPutRecordsOk
    \/ UnitPutRecordsErr
    \/ UnitRecoverEach
    \/ UnitHandleResponse

ResponseSpec == ResponseInit /\ [][ResponseNext]_vars

\* request entry i carries the data and the partition key of record i
EntriesFromRecords ==
    /\ Len(unit.request) = Len(unit.item)
    /\ \A i \in DOMAIN unit.request :
          /\ unit.request[i].data = unit.item[i].len
          /\ unit.request[i].partition_key = unit.item[i].partition_key

\* how often the record with reply slot a was handed to recovery
TimesRecovered(a) == Cardinality({j \in DOMAIN unit.retry : unit.retry[j].acker = a})

\* C36: request entry i of a batch sent is built from record i, and once
\* the task has ended every record of the batch has been acked or handed
\* to recovery, exactly once, whatever the call returned, a list of
\* entries shorter or longer than the batch included
C36_EveryRecordAckedOrRecovered ==
    unit.op = "response" =>
        /\ unit.phase \in {"rpc", "resp", "recover"} => EntriesFromRecords
        /\ unit.phase = "done" =>
              \A i \in DOMAIN unit.item :
                  \/ unit.slot[i].st = "sent" /\ TimesRecovered(i) = 0
                  \/ unit.slot[i].st = "pending" /\ TimesRecovered(i) = 1


(***************************************************************************)
(* The prediction of the records in the partitioned aggregation stage.     *)
(***************************************************************************)
\* the record was re-injected by the retry worker
Reinjected(rec) == rec.tries > 0

\* C37: every record in the partitioned aggregation stage, fresh from
\* submit or re-injected by the retry worker, carries a predicted shard,
\* and it sits in the aggregator of that shard; the pipeline worker never
\* panics on a record without a prediction
C37_PredictedWhenPartitioned ==
    /\ wpc # "panicked"
    /\ \A s \in Shards : \A i \in DOMAIN agg[s] :
          /\ agg[s][i].predicted_shard_id # <<>>
          /\ agg[s][i].predicted_shard_id[1] = s

\* a re-injected record and a fresh one side by side in an aggregator
C37_Witness ==
    \E s \in Shards : \E i, j \in DOMAIN agg[s] :
        /\ Reinjected(agg[s][i])
        /\ ~Reinjected(agg[s][j])
        /\ agg[s][i].predicted_shard_id # <<>>
        /\ agg[s][j].predicted_shard_id # <<>>


(***************************************************************************)
(* The shape of the records along the pipeline.                            *)
(***************************************************************************)
\* a raw record: no children and a reply slot of its own
IsRaw(rec) == rec.children = <<>> /\ rec.acker # None

\* an aggregate: children, all of them raw, and no reply slot of its own
IsAggregate(rec) ==
    /\ rec.children # <<>>
    /\ rec.acker = None
    /\ \A i \in DOMAIN rec.children : IsRaw(rec.children[i])

\* the records a PutRecords task is about to hand to the retry channel
TaskKids(t) == Range(t.kids)

\* C38: aggregates are never nested and never retried: every record on the
\* submit channel, on the retry channel, in the delay queue or on its way
\* between them is raw, with a reply slot of its own, and every record the
\* sink sends is an aggregate of raw records without a reply slot of its own
C38_RawRetriedAggregatesSent ==
    /\ \A i \in DOMAIN submitCh : IsRaw(submitCh[i])
    /\ \A i \in DOMAIN retryCh : IsRaw(retryCh[i])
    /\ \A d \in delayQ : IsRaw(d.rec)
    /\ rw.pc = "sending" => IsRaw(rw.rec)
    /\ \A t \in inflight :
          /\ \A i \in DOMAIN t.batch : IsAggregate(t.batch[i])
          /\ \A k \in TaskKids(t) : IsRaw(k)
    /\ \A i \in DOMAIN batch : IsAggregate(batch[i])

\* an aggregate in flight while a record that failed before is back on the
\* submit channel, raw and with its reply slot
C38_Witness ==
    /\ \E i \in DOMAIN submitCh : Reinjected(submitCh[i]) /\ IsRaw(submitCh[i])
    /\ \E t \in inflight : \E i \in DOMAIN t.batch : IsAggregate(t.batch[i])


(***************************************************************************)
(* The renewal-token store after a rejected token request.                 *)
(***************************************************************************)
\* the last request named a stored token and was rejected
RejectedPresenting ==
    /\ unit.resp # <<>>
    /\ unit.resp[1].status # StatusOk
    /\ unit.presented # <<>>

\* C39: a rejected request leaves the renewal-token store as it was: the
\* token presented to a refresh_token grant that is rejected, for an
\* expired token or for illegal scopes, is neither removed nor altered and
\* can be consumed by a later valid request
C39_RejectedLeavesStore ==
    (unit.op = "token" /\ RejectedPresenting) =>
        unit.st.store[unit.req.token] = unit.presented[1]


(***************************************************************************)
(* StringInterner alone: any sequence of intern calls, then take           *)
(* (intern.rs:8-23).                                                       *)
(***************************************************************************)
MaxInterns == 4
Strings == {"a", "b", "c"}

\* StringInterner::take: the strings of the set in the order of their indices
InternTake(table) == table

\* StringInterner::new()
InternInit ==
    /\ PipeInit
    /\ unit = [op |-> "intern", table |-> <<>>, calls |-> <<>>, taken |-> FALSE,
               strings |-> <<>>]

\* intern(data): calls remembers the string and the index returned
UnitIntern ==
    /\ unit.op = "intern"
    /\ ~unit.taken
    /\ Len(unit.calls) < MaxInterns
    /\ \E data \in Strings :
          LET r == Intern(unit.table, data)
          IN unit' = [unit EXCEPT !.table = r.table,
                                  !.calls = Append(@, [data |-> data, idx |-> r.idx])]
    /\ UNCHANGED pipevars

\* take(self): the interner is consumed
UnitInternTake ==
    /\ unit.op = "intern"
    /\ ~unit.taken
    /\ unit' = [unit EXCEPT !.strings = InternTake(unit.table), !.table = <<>>,
                            !.taken = TRUE]
    /\ UNCHANGED pipevars

InternNext == UnitIntern \/ UnitInternTake

InternSpec == InternInit /\ [][InternNext]_vars

\* the strings interned before call i
SeenBefore(i) == {unit.calls[j].data : j \in 1..(i - 1)}

\* C40: for any sequence of intern calls, calls with the same string return
\* the same index, a string not seen before gets the next of the indices
\* 0, 1, 2, .. in order of first insertion, and take() returns the distinct
\* strings with each string s at position intern(s)
C40_InternStableDense ==
    unit.op = "intern" =>
        /\ \A i, j \in DOMAIN unit.calls :
              unit.calls[i].data = unit.calls[j].data
                  => unit.calls[i].idx = unit.calls[j].idx
        /\ \A i \in DOMAIN unit.calls :
              unit.calls[i].data \notin SeenBefore(i)
                  => unit.calls[i].idx = Cardinality(SeenBefore(i))
        /\ unit.taken =>
              /\ Len(unit.strings) = Cardinality({unit.calls[i].data : i \in DOMAIN unit.calls})
              /\ \A i, j \in DOMAIN unit.strings :
                    unit.strings[i] = unit.strings[j] => i = j
              /\ \A i \in DOMAIN unit.calls :
                    unit.strings[unit.calls[i].idx + 1] = unit.calls[i].data

\* the calls of test_intern but for the last, with another order of first
\* insertion, and then take: b, a, c, b gave 0, 1, 2, 0
C40_Witness ==
    /\ unit.op = "intern"
    /\ unit.taken
    /\ unit.calls = <<[data |-> "b", idx |-> 0], [data |-> "a", idx |-> 1],
                      [data |-> "c", idx |-> 2], [data |-> "b", idx |-> 0]>>
    /\ unit.strings = <<"b", "a", "c">>

=============================================================================
